---------------------------- MODULE Spec2Model ----------------------------
(***************************************************************************)
(* A model of the Myrtille bridge of FreeRDP's Windows client:             *)
(*   - the print-job relay of channels/printer/client/printer_win.c;       *)
(*   - the session bridge of wf_myrtille.cpp (inputs reader, command       *)
(*     dispatcher, capture hooks, rate controller, wire framer).           *)
(* Text is modelled as sequences of one-character strings, so that the     *)
(* parsing the code does (substr, find, stoi, split) is computed and not   *)
(* assumed.                                                                *)
(***************************************************************************)
EXTENDS Integers, Sequences, FiniteSets, TLC

VARIABLES
    \* ---- printer_win.c: rdpWinPrinter and the spooler behind hPrinter
    printjob,       \* win_printer->printjob: NoJob (NULL) or the current job
    openJobs,       \* jobs handed to the channel by create and not closed yet
    docOpen,        \* spooler documents started (StartDocPrinter) and not ended
    printerOpen,    \* hPrinter is open (closed by ClosePrinter only)
    printerFreed,   \* free_printer has run
    printerName,    \* printer->name
    closedJob,      \* the job closed and freed last, which the caller may still point to
    \* ---- wfContext: settings and the facade objects the bridge reads
    settings,       \* wfc->context.settings (the fields the bridge touches)
    primary,        \* wfc->primary && wfc->primary->hdc
    cliprdr,        \* wfc->cliprdr && wfc->cliprdr->ClientFormatDataRequest
    clientThreads,  \* wf_client_thread threads spawned by CON
    \* ---- struct wf_myrtille
    processInputs,
    imageEncoding, imageQuality, imageQuantity,
    imageCount, imageIdx,
    scaleDisplay, clientWidth, clientHeight,
    clipboardText, clipboardUpdated,
    \* ---- the reader thread (processInputsPipe) and the process
    rpc,            \* where the reader is
    inputs,         \* the records of the batch being dispatched
    i,              \* index (from 1) of the next record of the batch
    teardown,       \* the teardown calls made so far, in order
    inputsPipe,     \* the bytes written on the inputs channel and not read yet
    \* ---- the effect of the handler that ran last, and what was observed
    last,
    obs,
    \* ---- the RDP client thread inside a capture that the reader runs beside
    capture         \* where it is in the call, and the call's locals

printerVars ==
    <<printjob, openJobs, docOpen, printerOpen, printerFreed, printerName, closedJob>>

ctxVars == <<settings, primary, cliprdr, clientThreads>>

policyVars == <<imageEncoding, imageQuality, imageQuantity>>

counterVars == <<imageCount, imageIdx>>

displayVars == <<scaleDisplay, clientWidth, clientHeight>>

clipVars == <<clipboardText, clipboardUpdated>>

readerVars == <<rpc, inputs, i, teardown>>

myrtilleVars == <<processInputs, policyVars, counterVars, displayVars, clipVars>>

sessionVars == <<ctxVars, myrtilleVars, readerVars>>

vars == <<printerVars, sessionVars, last, obs, capture, inputsPipe>>

(***************************************************************************)
(* Bounds of the model.                                                    *)
(***************************************************************************)
MaxJobId == 2       \* print-job ids the channel passes to create_printjob
MaxDocs == 2        \* spooler documents left open that the model follows
MaxReads == 2       \* reads of the inputs channel that return data, per run
MaxCalls == 1       \* callbacks of the RDP client thread, per run

(***************************************************************************)
(* The record every handler leaves in `last`: what it returned and what it *)
(* did to its collaborators (spooler calls, RDP-facade calls, writes on    *)
(* the updates channel, log records).                                      *)
(***************************************************************************)
NoJob == [id |-> 0, doc |-> <<>>]     \* win_printer->printjob == NULL
NullStr == <<"NULL">>                 \* a char* that is NULL

\* op, thr: the handler and its thread; rec: the input record it was given
\* (text); rect: the rectangle it was given (left, top, right, bottom);
\* ret: what it returned; spool, facade: the calls it made; wrote: its writes
\* on the updates channel; log: its log records.
Effect(op, thr, rec, rect, ret, spool, facade, wrote, log) ==
    [op |-> op, thr |-> thr, rec |-> rec, rect |-> rect, ret |-> ret,
     spool |-> spool, facade |-> facade, wrote |-> wrote, log |-> log]

\* The threads handlers run on.
READER == "reader"      \* processInputsPipe
RDP == "rdp"            \* wf_client_thread (capture and clipboard callbacks)
CHANNEL == "channel"    \* the printer channel's thread


(***************************************************************************)
(* Text: std::string as a sequence of characters.                          *)
(***************************************************************************)
INT_MAX == 2147483647
npos == -1                      \* std::string::npos stored in `int separatorIdx`
TAB == "\t"

Min(a, b) == IF a < b THEN a ELSE b

Digits == {"0", "1", "2", "3", "4", "5", "6", "7", "8", "9"}

DigitVal(c) ==
    CASE c = "0" -> 0 [] c = "1" -> 1 [] c = "2" -> 2 [] c = "3" -> 3
      [] c = "4" -> 4 [] c = "5" -> 5 [] c = "6" -> 6 [] c = "7" -> 7
      [] c = "8" -> 8 [] c = "9" -> 9

\* std::string::substr(pos, n): throws std::out_of_range when pos > size().
substr_throws(s, pos) == pos > Len(s)

substr(s, pos, n) == SubSeq(s, pos + 1, Min(pos + n, Len(s)))

\* s.substr(pos, s.length() - pos): the rest of the string from pos.
substr_rest(s, pos) == SubSeq(s, pos + 1, Len(s))

\* std::string::find(c) as the code stores it in an int: the 0-based index of
\* the first occurrence, or npos.
find(s, c) ==
    IF \E k \in 1..Len(s) : s[k] = c
    THEN (CHOOSE k \in 1..Len(s) : s[k] = c /\ \A j \in 1..(k - 1) : s[j] # c) - 1
    ELSE npos

\* strtol as used by std::stoi and atoi: optional blanks, optional sign, then
\* the longest run of digits.  [conv |-> some digit was read, range |-> the
\* value fits an int, val |-> the value].
RECURSIVE strtol_digits(_, _, _, _, _)
strtol_digits(s, k, acc, any, fits) ==
    IF k > Len(s) \/ s[k] \notin Digits
    THEN [conv |-> any, range |-> fits, val |-> acc]
    ELSE LET d == DigitVal(s[k]) IN
         IF ~fits \/ acc > (INT_MAX - d) \div 10
         THEN strtol_digits(s, k + 1, acc, TRUE, FALSE)
         ELSE strtol_digits(s, k + 1, acc * 10 + d, TRUE, TRUE)

RECURSIVE strtol_blanks(_, _)
strtol_blanks(s, k) ==
    IF k <= Len(s) /\ s[k] = " " THEN strtol_blanks(s, k + 1) ELSE k

strtol(s) ==
    LET k == strtol_blanks(s, 1)
        neg == k <= Len(s) /\ s[k] = "-"
        sgn == k <= Len(s) /\ s[k] \in {"-", "+"}
        r == strtol_digits(s, IF sgn THEN k + 1 ELSE k, 0, FALSE, TRUE)
    IN  [conv |-> r.conv, range |-> r.range, val |-> IF neg THEN 0 - r.val ELSE r.val]

\* std::stoi throws std::invalid_argument when nothing converts and
\* std::out_of_range when the value does not fit.
stoi_throws(s) == ~strtol(s).conv \/ ~strtol(s).range

stoi(s) == strtol(s).val

\* atoi: 0 when nothing converts.
atoi(s) == IF strtol(s).conv /\ strtol(s).range THEN strtol(s).val ELSE 0

\* split(s, delim): std::getline until the stream is exhausted.  A delimiter
\* ends an item (which may be empty); a trailing delimiter starts no item; an
\* empty string has no item.
RECURSIVE split_from(_, _, _, _)
split_from(s, delim, k, item) ==
    IF k > Len(s)
    THEN IF item = <<>> THEN <<>> ELSE <<item>>
    ELSE IF s[k] = delim
         THEN <<item>> \o split_from(s, delim, k + 1, <<>>)
         ELSE split_from(s, delim, k + 1, Append(item, s[k]))

split(s, delim) == split_from(s, delim, 1, <<>>)


(***************************************************************************)
(* Enumerations of wf_myrtille.cpp.                                        *)
(***************************************************************************)
IMAGE_COUNT_SAMPLING_RATE == 100

ENCODING_AUTO == 0
ENCODING_PNG == 1
ENCODING_JPEG == 2
ENCODING_WEBP == 3

FORMAT_CUR == 0
FORMAT_PNG == 1
FORMAT_JPEG == 2
FORMAT_WEBP == 3

QUALITY_LOW == 10
QUALITY_MEDIUM == 25
QUALITY_HIGH == 50
QUALITY_HIGHER == 75
QUALITY_HIGHEST == 100

\* The text the bridge itself writes.
TxtReload == <<"r", "e", "l", "o", "a", "d">>
TxtClipboard == <<"c", "l", "i", "p", "b", "o", "a", "r", "d", "|">>
TxtPrintjob == <<"p", "r", "i", "n", "t", "j", "o", "b", "|">>
TxtPdf == <<".", "p", "d", "f">>

Range(f) == {f[k] : k \in DOMAIN f}

(***************************************************************************)
(* The updates channel.  A write is recorded with its outcome; WriteFile   *)
(* can succeed only on a handle that is open.                              *)
(***************************************************************************)
Connected == rpc # "none"

ProcessAlive == rpc \notin {"exited", "aborted"}

UpdatesPipeOpen == Connected /\ "CloseHandle(updatesPipe)" \notin Range(teardown)

WriteOutcomes == IF UpdatesPipeOpen THEN BOOLEAN ELSE {FALSE}

ImageMeta(idx, posX, posY, width, height, format, quality, fullscreen) ==
    [idx |-> idx, posX |-> posX, posY |-> posY, width |-> width,
     height |-> height, format |-> format, quality |-> quality,
     fullscreen |-> fullscreen]

NoMeta == ImageMeta(0, 0, 0, 0, 0, 0, 0, 0)     \* a text message has none

\* The four bytes of the value, most significant first.
int32ToBytes_big_endian(value) ==
    <<(value \div 16777216) % 256, (value \div 65536) % 256,
      (value \div 256) % 256, value % 256>>

\* int32ToBytes: value & 0xFF, (value >> 8) & 0xFF, (value >> 16) & 0xFF,
\* (value >> 24) & 0xFF, in this order.
int32ToBytes(value) ==
    <<value % 256, (value \div 256) % 256, (value \div 65536) % 256,
      (value \div 16777216) % 256>>

\* The 40 bytes sendImage puts before the data: size + 36, the tag 0, then
\* the metadata.
sendImage_header(meta, size) ==
    int32ToBytes(size + 36) \o int32ToBytes(0) \o int32ToBytes(meta.idx)
        \o int32ToBytes(meta.posX) \o int32ToBytes(meta.posY)
        \o int32ToBytes(meta.width) \o int32ToBytes(meta.height)
        \o int32ToBytes(meta.format) \o int32ToBytes(meta.quality)
        \o int32ToBytes(meta.fullscreen)

\* The length of the whole buffer in the 4 bytes, not that of the text.
sendMessage_header_of_buffer(msg) == int32ToBytes(Len(msg) + 4)

\* The 4 bytes sendMessage puts before the text: msg.length().
sendMessage_header(msg) == int32ToBytes(Len(msg))

\* One WriteFile on the updates pipe: the header bytes of the buffer, the
\* text (of a message) or the number of data bytes (of an image) that follow
\* them, bytesToWrite, and whether the call succeeded.  meta is what
\* sendImage was given.
Write(kind, ok, text, size, meta) ==
    [kind |-> kind, ok |-> ok, text |-> text, size |-> size, meta |-> meta,
     header |-> IF kind = "image" THEN sendImage_header(meta, size)
                ELSE sendMessage_header(text),
     bytesToWrite |-> IF kind = "image" THEN size + 40 ELSE Len(text) + 4]

LogRec(level, where, arg) == [level |-> level, where |-> where, arg |-> arg]

\* sendMessage: the length (4 bytes) and the text, in one WriteFile.  A failed
\* write is logged and nothing else is done.
sendMessage_wrote(msg, ok) == <<Write("message", ok, msg, Len(msg), NoMeta)>>

sendMessage_log(msg, ok) ==
    IF ok THEN <<>> ELSE <<LogRec("ERR", "sendMessage: WriteFile failed", <<>>)>>

sendMessage_processInputs(pi, ok) == pi

\* The error record is formatted with "%s" and given the std::string itself,
\* not its c_str(): what the vararg call does with it is undefined.  `fmt`
\* says whether the call returns; when it does not, the process ends there.
sendMessage_throws(ok, fmt) == ~ok /\ ~fmt

\* sendImage: the header (40 bytes) and the data, in one WriteFile.  A failed
\* write clears processInputs.
sendImage_wrote(meta, size, ok) == <<Write("image", ok, <<>>, size, meta)>>

sendImage_log(ok) ==
    IF ok THEN <<>> ELSE <<LogRec("ERR", "sendImage: WriteFile failed", <<>>)>>

sendImage_processInputs(pi, ok) == IF ok THEN pi ELSE FALSE

(***************************************************************************)
(* processImage: encode per imageEncoding, allocate the index, send.       *)
(* sz is what the encoders produced: [png, jpg, webp] stream sizes, 0 for  *)
(* an encoder that failed or wrote nothing.                                *)
(***************************************************************************)
\* The quality of a full screen taken from the policy too.
processImage_quality_of_policy(enc, qual, fullscreen) ==
    IF enc = ENCODING_PNG THEN QUALITY_HIGHEST ELSE qual

processImage_quality(enc, qual, fullscreen) ==
    IF enc = ENCODING_PNG THEN QUALITY_HIGHEST
    ELSE IF fullscreen THEN QUALITY_HIGHER ELSE qual

\* AUTO keeping PNG when it is the larger of the two.
processImage_encode_larger(enc, qual, fullscreen, sz) ==
    LET quality == processImage_quality(enc, qual, fullscreen) IN
    IF enc \in {ENCODING_PNG, ENCODING_JPEG, ENCODING_AUTO}
    THEN IF enc = ENCODING_PNG \/ (enc = ENCODING_AUTO /\ sz.png >= sz.jpg)
         THEN [stream |-> TRUE, format |-> FORMAT_PNG,
               quality |-> QUALITY_HIGHEST, size |-> sz.png]
         ELSE [stream |-> TRUE, format |-> FORMAT_JPEG,
               quality |-> quality, size |-> sz.jpg]
    ELSE IF enc = ENCODING_WEBP
         THEN [stream |-> TRUE, format |-> FORMAT_WEBP,
               quality |-> quality, size |-> sz.webp]
         ELSE [stream |-> FALSE, format |-> FORMAT_CUR,
               quality |-> quality, size |-> 0]

processImage_encode(enc, qual, fullscreen, sz) ==
    LET quality == processImage_quality(enc, qual, fullscreen) IN
    IF enc \in {ENCODING_PNG, ENCODING_JPEG, ENCODING_AUTO}
    THEN IF enc = ENCODING_PNG \/ (enc = ENCODING_AUTO /\ sz.png <= sz.jpg)
         THEN [stream |-> TRUE, format |-> FORMAT_PNG,
               quality |-> QUALITY_HIGHEST, size |-> sz.png]
         ELSE [stream |-> TRUE, format |-> FORMAT_JPEG,
               quality |-> quality, size |-> sz.jpg]
    ELSE IF enc = ENCODING_WEBP
         THEN [stream |-> TRUE, format |-> FORMAT_WEBP,
               quality |-> quality, size |-> sz.webp]
         ELSE [stream |-> FALSE, format |-> FORMAT_CUR,
               quality |-> quality, size |-> 0]

\* INT_MAX followed by 1 at once.
imageIdx_wrap_to_one(idx) == IF idx = INT_MAX THEN 1 ELSE idx

\* if (imageIdx == INT_MAX) imageIdx = 0;
imageIdx_wrap(idx) == IF idx = INT_MAX THEN 0 ELSE idx

\* imageIdx++ for ++imageIdx: the value before the increment.
imageIdx_post_increment(idx) == idx

\* ++myrtille->imageIdx, the value sendImage is given.
imageIdx_next(idx) == idx + 1

\* if (!WebPEncode(...)) WLog_ERR(...): all that is done with an encoder's
\* status.  sz.failed holds the formats whose encoder reported a failure;
\* the status of bmp->Save is not read.
webPEncoder_log(enc, sz) ==
    IF enc = ENCODING_WEBP /\ FORMAT_WEBP \in sz.failed
    THEN <<LogRec("ERR", "webPEncoder: WebP encoding failed", <<>>)>>
    ELSE <<>>

processImage(left, top, right, bottom, fullscreen, sz, ok) ==
    LET e == processImage_encode(imageEncoding, imageQuality, fullscreen, sz)
        idx0 == imageIdx_wrap(imageIdx)
        send == e.stream /\ e.size > 0
        meta == ImageMeta(imageIdx_next(idx0), left, top, right - left,
                          bottom - top, e.format, e.quality,
                          IF fullscreen THEN 1 ELSE 0)
    IN  [imageIdx |-> IF send THEN imageIdx_next(idx0) ELSE idx0,
         wrote |-> IF send THEN sendImage_wrote(meta, e.size, ok) ELSE <<>>,
         log |-> webPEncoder_log(imageEncoding, sz)
                 \o (IF send THEN sendImage_log(ok) ELSE <<>>),
         processInputs |-> IF send THEN sendImage_processInputs(processInputs, ok)
                           ELSE processInputs]


(***************************************************************************)
(* Capture hooks.  Each yields what the call changes and does:             *)
(* [imageCount, imageIdx, processInputs, facade, wrote, log].              *)
(***************************************************************************)
\* A call on a collaborator: its name, its flags, its numbers, its text.
\* The RDP client thread is in no capture that is followed statement by
\* statement.
NotCapturing ==
    [pc |-> "idle", region |-> [left |-> 0, top |-> 0, right |-> 0, bottom |-> 0],
     rect |-> [left |-> 0, top |-> 0, right |-> 0, bottom |-> 0],
     sz |-> [png |-> 0, jpg |-> 0, webp |-> 0, failed |-> {}],
     cw |-> 0, ch |-> 0, facade |-> <<>>, quality |-> 0,
     png |-> FALSE, pngSize |-> 0, jpg |-> FALSE, jpgSize |-> 0,
     stream |-> FALSE, format |-> 0, size |-> 0, idx |-> 0,
     policies |-> {}, dims |-> {}]

Call(f, flags, nums, text) == [f |-> f, flags |-> flags, nums |-> nums, text |-> text]

\* C's integer division truncates toward zero.
cdiv(a, b) ==
    IF (a >= 0) = (b > 0) THEN a \div b
    ELSE 0 - ((0 - a) \div b)

\* A call that returns early counted as a region update.
NoCapture_counted ==
    [imageCount |-> imageCount + 1, imageIdx |-> imageIdx,
     processInputs |-> processInputs, facade |-> <<>>, wrote |-> <<>>,
     log |-> <<>>]

NoCapture ==
    [imageCount |-> imageCount, imageIdx |-> imageIdx,
     processInputs |-> processInputs, facade |-> <<>>, wrote |-> <<>>,
     log |-> <<>>]

Unscaled ==
    \/ ~scaleDisplay
    \/ (clientWidth = settings.DesktopWidth /\ clientHeight = settings.DesktopHeight)

wf_myrtille_send_screen(sz, ok) ==
    IF settings.MyrtilleSessionId = 0 \/ ~primary THEN NoCapture
    ELSE
    LET cw == clientWidth
        ch == clientHeight
        dw == settings.DesktopWidth
        dh == settings.DesktopHeight
        w == IF scaleDisplay THEN cw ELSE dw
        h == IF scaleDisplay THEN ch ELSE dh
        blt == IF Unscaled THEN Call("BitBlt", {}, <<0, 0, dw, dh>>, <<>>)
               ELSE Call("StretchBlt", {}, <<0, 0, cw, ch, dw, dh>>, <<>>)
        p == processImage(0, 0, w, h, TRUE, sz, ok)
    IN  [imageCount |-> imageCount, imageIdx |-> p.imageIdx,
         processInputs |-> p.processInputs, facade |-> <<blt>>,
         wrote |-> p.wrote, log |-> p.log]

\* The check of the order of the edges alone.
send_region_rejects_reversed_only(region) ==
    region.left > region.right \/ region.top > region.bottom

\* The consistency check on the rectangle.
send_region_rejects(region) ==
    \/ region.left < 0 \/ region.left > settings.DesktopWidth
    \/ region.top < 0 \/ region.top > settings.DesktopHeight
    \/ region.right < 0 \/ region.right > settings.DesktopWidth
    \/ region.bottom < 0 \/ region.bottom > settings.DesktopHeight
    \/ region.left > region.right \/ region.top > region.bottom

\* The increment left out.
imageCount_not_incremented(count) == IF count = INT_MAX THEN 0 ELSE count

\* The ips regulator: the counter after this call, and whether the call is
\* dropped.
imageCount_next(count) == (IF count = INT_MAX THEN 0 ELSE count) + 1

\* The counter taken modulo the quantity and not modulo 100/quantity.
send_region_drops_modulo_quantity(quantity, count) ==
    /\ quantity \in {5, 10, 20, 25, 50}
    /\ count % quantity # 0

send_region_drops(quantity, count) ==
    /\ quantity \in {5, 10, 20, 25, 50}
    /\ count % (100 \div quantity) # 0

wf_myrtille_send_region(region, sz, ok) ==
    IF settings.MyrtilleSessionId = 0 \/ ~primary THEN NoCapture
    ELSE IF send_region_rejects(region) THEN NoCapture
    ELSE
    LET count == imageCount_next(imageCount) IN
    IF send_region_drops(imageQuantity, count)
    THEN [NoCapture EXCEPT !.imageCount = count]
    ELSE
    LET cw == clientWidth
        ch == clientHeight
        dw == settings.DesktopWidth
        dh == settings.DesktopHeight
        rw == region.right - region.left
        rh == region.bottom - region.top
        blt == IF Unscaled
               THEN Call("BitBlt", {}, <<region.left, region.top, rw, rh>>, <<>>)
               ELSE Call("StretchBlt", {}, <<region.left, region.top,
                                             cdiv(rw * cw, dw), cdiv(rh * ch, dh),
                                             rw, rh>>, <<>>)
        r == IF Unscaled THEN region
             ELSE [left |-> cdiv(region.left * cw, dw),
                   top |-> cdiv(region.top * ch, dh),
                   right |-> cdiv(region.right * cw, dw),
                   bottom |-> cdiv(region.bottom * ch, dh)]
        p == processImage(r.left, r.top, r.right, r.bottom, FALSE, sz, ok)
    IN  [imageCount |-> count, imageIdx |-> p.imageIdx,
         processInputs |-> p.processInputs, facade |-> <<blt>>,
         wrote |-> p.wrote, log |-> p.log]

\* The cursor's pixel pass: bmpOk is set by any pixel that is neither the
\* mask colour nor yellow.
IsMaskBlue(px) == px.r = 0 /\ px.g = 0 /\ px.b = 255

IsYellow(px) == px.r = 255 /\ px.g = 255 /\ px.b = 0

\* The pixels after the pass, as ARGB: the mask colour becomes 0x00ffffff,
\* yellow becomes 0xff000000, any other pixel stays (opaque, the cursor
\* having been drawn from a bitmap with no alpha channel).
send_cursor_pass(pixels) ==
    [k \in DOMAIN pixels |->
        IF IsMaskBlue(pixels[k]) THEN [a |-> 0, r |-> 255, g |-> 255, b |-> 255]
        ELSE IF IsYellow(pixels[k]) THEN [a |-> 255, r |-> 0, g |-> 0, b |-> 0]
        ELSE [a |-> 255, r |-> pixels[k].r, g |-> pixels[k].g, b |-> pixels[k].b]]

send_cursor_bmpOk(pixels) ==
    \E k \in DOMAIN pixels : ~IsMaskBlue(pixels[k]) /\ ~IsYellow(pixels[k])

wf_myrtille_send_cursor(cursor, pngSize, ok) ==
    IF settings.MyrtilleSessionId = 0 \/ ~primary THEN NoCapture
    ELSE IF ~send_cursor_bmpOk(cursor.pixels)
         THEN [NoCapture EXCEPT !.facade = <<Call("DrawIconEx", {}, <<>>, <<>>)>>]
    ELSE
    LET idx0 == imageIdx_wrap(imageIdx)
        send == pngSize > 0
        meta == ImageMeta(imageIdx_next(idx0), cursor.xHotspot, cursor.yHotspot,
                          cursor.width, cursor.height, FORMAT_CUR,
                          QUALITY_HIGHEST, 0)
    IN  [imageCount |-> imageCount,
         imageIdx |-> IF send THEN imageIdx_next(idx0) ELSE idx0,
         processInputs |-> IF send THEN sendImage_processInputs(processInputs, ok)
                           ELSE processInputs,
         facade |-> <<Call("DrawIconEx", {}, <<>>, <<>>)>>,
         wrote |-> IF send THEN sendImage_wrote(meta, pngSize, ok) ELSE <<>>,
         log |-> IF send THEN sendImage_log(ok) ELSE <<>>]


(***************************************************************************)
(* The command dispatcher of processInputsPipe.                            *)
(***************************************************************************)
\* commandMap as wf_myrtille_start fills it.
commandMap ==
    (<<"S", "R", "V">> :> "SEND_SERVER_ADDRESS") @@
    (<<"V", "M", "G">> :> "SEND_VM_GUID") @@
    (<<"D", "O", "M">> :> "SEND_USER_DOMAIN") @@
    (<<"U", "S", "R">> :> "SEND_USER_NAME") @@
    (<<"P", "W", "D">> :> "SEND_USER_PASSWORD") @@
    (<<"P", "R", "G">> :> "SEND_START_PROGRAM") @@
    (<<"C", "O", "N">> :> "CONNECT_CLIENT") @@
    (<<"R", "S", "Z">> :> "SEND_BROWSER_RESIZE") @@
    (<<"K", "U", "C">> :> "SEND_KEY_UNICODE") @@
    (<<"K", "S", "C">> :> "SEND_KEY_SCANCODE") @@
    (<<"M", "M", "O">> :> "SEND_MOUSE_MOVE") @@
    (<<"M", "L", "B">> :> "SEND_MOUSE_LEFT_BUTTON") @@
    (<<"M", "M", "B">> :> "SEND_MOUSE_MIDDLE_BUTTON") @@
    (<<"M", "R", "B">> :> "SEND_MOUSE_RIGHT_BUTTON") @@
    (<<"M", "W", "U">> :> "SEND_MOUSE_WHEEL_UP") @@
    (<<"M", "W", "D">> :> "SEND_MOUSE_WHEEL_DOWN") @@
    (<<"S", "T", "A">> :> "SET_STAT_MODE") @@
    (<<"D", "B", "G">> :> "SET_DEBUG_MODE") @@
    (<<"C", "M", "P">> :> "SET_COMPATIBILITY_MODE") @@
    (<<"S", "C", "A">> :> "SET_SCALE_DISPLAY") @@
    (<<"E", "C", "D">> :> "SET_IMAGE_ENCODING") @@
    (<<"Q", "L", "T">> :> "SET_IMAGE_QUALITY") @@
    (<<"Q", "N", "T">> :> "SET_IMAGE_QUANTITY") @@
    (<<"F", "S", "U">> :> "REQUEST_FULLSCREEN_UPDATE") @@
    (<<"C", "L", "P">> :> "REQUEST_REMOTE_CLIPBOARD") @@
    (<<"C", "L", "O">> :> "CLOSE_CLIENT")

\* COMMAND command = commandMap[tag]: std::map::operator[] inserts a
\* value-initialized COMMAND for a key it does not hold, and COMMAND(0) is
\* SEND_SERVER_ADDRESS.
commandMap_lookup(tag) ==
    IF tag \in DOMAIN commandMap THEN commandMap[tag] ELSE "SEND_SERVER_ADDRESS"

\* What a record leaves as it was unless its handler says otherwise.
Keep ==
    [settings |-> settings, clientThreads |-> clientThreads,
     processInputs |-> processInputs, imageEncoding |-> imageEncoding,
     imageQuality |-> imageQuality, imageQuantity |-> imageQuantity,
     imageCount |-> imageCount, imageIdx |-> imageIdx,
     scaleDisplay |-> scaleDisplay, clientWidth |-> clientWidth,
     clientHeight |-> clientHeight,
     facade |-> <<>>, wrote |-> <<>>, log |-> <<>>, throws |-> FALSE]

Throw(d) == [d EXCEPT !.throws = TRUE]

\* case SEND_SERVER_ADDRESS
cmd_server_address(args) ==
    LET p == find(args, "[") IN
    IF p = npos
    THEN LET c == find(args, ":") IN
         IF c # npos
         THEN [Keep EXCEPT !.settings.ServerHostname = substr(args, 0, c),
                           !.settings.ServerPort = atoi(substr_rest(args, c + 1))]
         ELSE [Keep EXCEPT !.settings.ServerHostname = args]
    ELSE LET p2 == find(args, "]") IN
         IF p2 # npos /\ p2 - p > 0
         THEN [Keep EXCEPT
                 !.settings.ServerHostname = substr(args, p + 1, p2 - p - 1),
                 !.settings.ServerPort =
                     IF p2 + 2 <= Len(args) /\ args[p2 + 2] = ":"
                     THEN atoi(substr_rest(args, p2 + 2))
                     ELSE settings.ServerPort]
         ELSE [Keep EXCEPT !.settings.ServerHostname = NullStr]

\* case SEND_VM_GUID
cmd_vm_guid(args) ==
    [Keep EXCEPT !.settings.VmConnectMode = TRUE,
                 !.settings.ServerPort = 2179,
                 !.settings.NegotiateSecurityLayer = FALSE,
                 !.settings.SendPreconnectionPdu = TRUE,
                 !.settings.PreconnectionBlob = args]

\* case SEND_USER_DOMAIN
cmd_user_domain(args) == [Keep EXCEPT !.settings.Domain = args]

\* freerdp_parse_username: domain\user, or user@domain.
freerdp_parse_username(user) ==
    LET b == find(user, "\\")
        a == find(user, "@")
    IN  IF b # npos
        THEN [Username |-> substr_rest(user, b + 1), Domain |-> substr(user, 0, b)]
        ELSE IF a # npos
        THEN [Username |-> substr(user, 0, a), Domain |-> substr_rest(user, a + 1)]
        ELSE [Username |-> user, Domain |-> NullStr]

\* case SEND_USER_NAME
cmd_user_name(args) ==
    IF settings.Domain = NullStr
    THEN [Keep EXCEPT !.settings.Username = freerdp_parse_username(args).Username,
                      !.settings.Domain = freerdp_parse_username(args).Domain]
    ELSE [Keep EXCEPT !.settings.Username = args]

\* case SEND_USER_PASSWORD
cmd_user_password(args) == [Keep EXCEPT !.settings.Password = args]

\* case SEND_START_PROGRAM
cmd_start_program(args) == [Keep EXCEPT !.settings.AlternateShell = args]

\* case CONNECT_CLIENT: CreateThread(wf_client_thread), ok or not.
cmd_connect_client(created) ==
    IF created
    THEN [Keep EXCEPT !.clientThreads = clientThreads + 1,
                      !.facade = <<Call("CreateThread", {}, <<>>, <<"wf_client_thread">>)>>]
    ELSE [Keep EXCEPT !.facade = <<Call("CreateThread", {}, <<>>, <<"wf_client_thread">>)>>,
                      !.log = <<LogRec("ERR", "processInputsPipe: CreateThread failed", <<>>)>>]

\* case SEND_BROWSER_RESIZE.  stoi runs for the width, then for the height; a
\* throw leaves what was assigned before it.
cmd_browser_resize(args) ==
    LET sep == find(args, "x") IN
    IF sep = npos THEN Keep
    ELSE LET w == substr(args, 0, sep)
             h == substr_rest(args, sep + 1)
         IN  IF stoi_throws(w) THEN Throw(Keep)
             ELSE IF stoi_throws(h) THEN Throw([Keep EXCEPT !.clientWidth = stoi(w)])
             ELSE [Keep EXCEPT !.clientWidth = stoi(w), !.clientHeight = stoi(h)]


\* Flags are kept as the set of their named bits; the low bits of a wheel
\* event (the rotation) are a number.
KbdFlags(pressed) ==
    IF pressed = <<"1">> THEN {"KBD_FLAGS_DOWN"} ELSE {"KBD_FLAGS_RELEASE"}

MouseFlags(bits, low) == [bits |-> bits, low |-> low]

\* UINT16 parameters of the input callbacks.
ToUINT16(v) == v % 65536

\* The scancodes the code sends as extended.
ExtendedScancodes == {73, 81, 79, 71, 75, 72, 77, 80}

\* case SEND_KEY_UNICODE, SEND_KEY_SCANCODE
cmd_key(command, args) ==
    LET sep == find(args, "-") IN
    IF sep = npos THEN Keep
    ELSE
    LET keyCode == substr(args, 0, sep)
        pressed == substr(args, sep + 1, 1)
        code == atoi(keyCode)
    IN  IF command = "SEND_KEY_UNICODE"
        THEN [Keep EXCEPT !.facade =
                 <<Call("UnicodeKeyboardEvent", KbdFlags(pressed), <<ToUINT16(code)>>, <<>>)>>]
        ELSE IF code \in ExtendedScancodes
        THEN IF pressed = <<"1">>
             THEN [Keep EXCEPT !.facade =
                      <<Call("freerdp_input_send_keyboard_event_ex",
                             {"down", "KBD_FLAGS_EXTENDED"}, <<code % 256>>, <<>>)>>]
             ELSE Keep
        ELSE [Keep EXCEPT !.facade =
                 <<Call("KeyboardEvent", KbdFlags(pressed), <<ToUINT16(code)>>, <<>>)>>]

\* processMouseInput.  A zero clientWidth or clientHeight under scaling is an
\* integer division by zero, which ends the process like a throw does.
processMouseInput(input, flags) ==
    LET sep == find(input, "-") IN
    IF sep = npos THEN Keep
    ELSE
    LET mX == substr(input, 0, sep)
        mY == substr_rest(input, sep + 1)
    IN  IF mX = <<>> THEN Keep
        ELSE IF stoi_throws(mX) THEN Throw(Keep)
        ELSE IF stoi(mX) < 0 \/ mY = <<>> THEN Keep
        ELSE IF stoi_throws(mY) THEN Throw(Keep)
        ELSE IF stoi(mY) < 0 THEN Keep
        ELSE IF Unscaled
        THEN [Keep EXCEPT !.facade =
                 <<Call("MouseEvent", flags.bits,
                        <<flags.low, ToUINT16(stoi(mX)), ToUINT16(stoi(mY))>>, <<>>)>>]
        ELSE IF clientWidth = 0 \/ clientHeight = 0 THEN Throw(Keep)
        ELSE [Keep EXCEPT !.facade =
                 <<Call("MouseEvent", flags.bits,
                        <<flags.low,
                          ToUINT16(cdiv(stoi(mX) * settings.DesktopWidth, clientWidth)),
                          ToUINT16(cdiv(stoi(mY) * settings.DesktopHeight, clientHeight))>>,
                        <<>>)>>]

\* case SEND_MOUSE_LEFT_BUTTON, MIDDLE, RIGHT: commandArgs.substr(1, ...) throws
\* on empty arguments.
cmd_mouse_button(args, button) ==
    IF substr_throws(args, 1) THEN Throw(Keep)
    ELSE processMouseInput(substr_rest(args, 1),
                           IF substr(args, 0, 1) = <<"0">>
                           THEN MouseFlags({button}, 0)
                           ELSE MouseFlags({"PTR_FLAGS_DOWN", button}, 0))

\* case SET_STAT_MODE, SET_DEBUG_MODE, SET_COMPATIBILITY_MODE
cmd_reload(ok, fmt) ==
    [Keep EXCEPT !.wrote = sendMessage_wrote(TxtReload, ok),
                 !.log = sendMessage_log(TxtReload, ok),
                 !.processInputs = sendMessage_processInputs(processInputs, ok),
                 !.throws = sendMessage_throws(ok, fmt)]

\* case SET_SCALE_DISPLAY
cmd_scale_display(args, ok, fmt) ==
    LET sep == find(args, "x")
        scaled == [cmd_reload(ok, fmt) EXCEPT !.scaleDisplay = (args # <<"0">>)]
    IN  IF sep = npos THEN scaled
        ELSE LET w == substr(args, 0, sep)
                 h == substr_rest(args, sep + 1)
             IN  IF stoi_throws(w)
                 THEN Throw([Keep EXCEPT !.scaleDisplay = (args # <<"0">>)])
                 ELSE IF stoi_throws(h)
                 THEN Throw([Keep EXCEPT !.scaleDisplay = (args # <<"0">>),
                                         !.clientWidth = stoi(w)])
                 ELSE [scaled EXCEPT !.clientWidth = stoi(w), !.clientHeight = stoi(h)]

\* case SET_IMAGE_ENCODING
cmd_image_encoding(args) ==
    IF stoi_throws(args) THEN Throw(Keep)
    ELSE [Keep EXCEPT !.imageEncoding = stoi(args), !.imageQuality = QUALITY_HIGH]

\* The value of QLT parsed and not stored.
cmd_image_quality_not_stored(args) ==
    IF stoi_throws(args) THEN Throw(Keep) ELSE Keep

\* case SET_IMAGE_QUALITY
cmd_image_quality(args) ==
    IF stoi_throws(args) THEN Throw(Keep)
    ELSE [Keep EXCEPT !.imageQuality = stoi(args)]

\* case SET_IMAGE_QUANTITY
cmd_image_quantity(args) ==
    IF stoi_throws(args) THEN Throw(Keep)
    ELSE [Keep EXCEPT !.imageQuantity = stoi(args)]

\* case REQUEST_FULLSCREEN_UPDATE
cmd_fullscreen_update(sz, ok) ==
    LET c == wf_myrtille_send_screen(sz, ok) IN
    [Keep EXCEPT !.imageIdx = c.imageIdx, !.processInputs = c.processInputs,
                 !.facade = c.facade, !.wrote = c.wrote, !.log = c.log]

\* The cached text sent whatever clipboardUpdated is.
cmd_remote_clipboard_always_sends(ok, fmt) ==
    [Keep EXCEPT !.wrote = sendMessage_wrote(clipboardText, ok),
                 !.log = sendMessage_log(clipboardText, ok),
                 !.processInputs = sendMessage_processInputs(processInputs, ok),
                 !.throws = sendMessage_throws(ok, fmt)]

\* case REQUEST_REMOTE_CLIPBOARD
cmd_remote_clipboard(ok, fmt) ==
    IF clipboardUpdated
    THEN IF ~cliprdr
         THEN [Keep EXCEPT !.log =
                  <<LogRec("INFO", "processInputsPipe: clipboard redirect is disabled", <<>>)>>]
         ELSE [Keep EXCEPT !.facade =
                  <<Call("ClientFormatDataRequest", {}, <<>>, <<"CF_UNICODETEXT">>)>>]
    ELSE [Keep EXCEPT !.wrote = sendMessage_wrote(clipboardText, ok),
                      !.log = sendMessage_log(clipboardText, ok),
                      !.processInputs = sendMessage_processInputs(processInputs, ok),
                      !.throws = sendMessage_throws(ok, fmt)]

\* case CLOSE_CLIENT
cmd_close_client == [Keep EXCEPT !.processInputs = FALSE]


\* One iteration of the for loop over the batch: look the tag up, take the
\* arguments (substr(3, ...) throws on a record shorter than 3 characters),
\* log the record unless it is a password, run the handler.  env is what the
\* collaborators answer: [sz, ok, fmt, created].
\* Every record logged.
dispatch_logs_every_record(command) == TRUE

dispatch_logs(command) == command # "SEND_USER_PASSWORD"

dispatch(rec, env) ==
    IF substr_throws(rec, 3) THEN Throw(Keep)
    ELSE
    LET command == commandMap_lookup(substr(rec, 0, 3))
        args == substr_rest(rec, 3)
        logged == IF dispatch_logs(command)
                  THEN <<LogRec("INFO", "processInputsPipe", rec)>> ELSE <<>>
        d == CASE command = "SEND_SERVER_ADDRESS" -> cmd_server_address(args)
               [] command = "SEND_VM_GUID" -> cmd_vm_guid(args)
               [] command = "SEND_USER_DOMAIN" -> cmd_user_domain(args)
               [] command = "SEND_USER_NAME" -> cmd_user_name(args)
               [] command = "SEND_USER_PASSWORD" -> cmd_user_password(args)
               [] command = "SEND_START_PROGRAM" -> cmd_start_program(args)
               [] command = "CONNECT_CLIENT" -> cmd_connect_client(env.created)
               [] command = "SEND_BROWSER_RESIZE" -> cmd_browser_resize(args)
               [] command \in {"SEND_KEY_UNICODE", "SEND_KEY_SCANCODE"} ->
                      cmd_key(command, args)
               [] command = "SEND_MOUSE_MOVE" ->
                      processMouseInput(args, MouseFlags({"PTR_FLAGS_MOVE"}, 0))
               [] command = "SEND_MOUSE_LEFT_BUTTON" ->
                      cmd_mouse_button(args, "PTR_FLAGS_BUTTON1")
               [] command = "SEND_MOUSE_MIDDLE_BUTTON" ->
                      cmd_mouse_button(args, "PTR_FLAGS_BUTTON3")
               [] command = "SEND_MOUSE_RIGHT_BUTTON" ->
                      cmd_mouse_button(args, "PTR_FLAGS_BUTTON2")
               [] command = "SEND_MOUSE_WHEEL_UP" ->
                      processMouseInput(args, MouseFlags({"PTR_FLAGS_WHEEL"}, 120))
               [] command = "SEND_MOUSE_WHEEL_DOWN" ->
                      processMouseInput(args,
                          MouseFlags({"PTR_FLAGS_WHEEL", "PTR_FLAGS_WHEEL_NEGATIVE"}, 136))
               [] command \in {"SET_STAT_MODE", "SET_DEBUG_MODE",
                               "SET_COMPATIBILITY_MODE"} -> cmd_reload(env.ok, env.fmt)
               [] command = "SET_SCALE_DISPLAY" -> cmd_scale_display(args, env.ok, env.fmt)
               [] command = "SET_IMAGE_ENCODING" -> cmd_image_encoding(args)
               [] command = "SET_IMAGE_QUALITY" -> cmd_image_quality(args)
               [] command = "SET_IMAGE_QUANTITY" -> cmd_image_quantity(args)
               [] command = "REQUEST_FULLSCREEN_UPDATE" ->
                      cmd_fullscreen_update(env.sz, env.ok)
               [] command = "REQUEST_REMOTE_CLIPBOARD" -> cmd_remote_clipboard(env.ok, env.fmt)
               [] command = "CLOSE_CLIENT" -> cmd_close_client
    IN  [d EXCEPT !.log = logged \o d.log]


(***************************************************************************)
(* Records of the inputs channel the model feeds the reader.               *)
(***************************************************************************)
R_CLO == <<"C", "L", "O">>
R_FSU == <<"F", "S", "U">>
R_STA == <<"S", "T", "A">>
R_CON == <<"C", "O", "N">>
R_CLP == <<"C", "L", "P">>
R_KUC65_1 == <<"K", "U", "C", "6", "5", "-", "1">>
R_QLT75 == <<"Q", "L", "T", "7", "5">>
R_ECD1 == <<"E", "C", "D", "1">>
R_QNT25 == <<"Q", "N", "T", "2", "5">>
R_RSZ800x600 == <<"R", "S", "Z", "8", "0", "0", "x", "6", "0", "0">>
R_SCA800x600 == <<"S", "C", "A", "8", "0", "0", "x", "6", "0", "0">>
R_MWD120_200 == <<"M", "W", "D", "1", "2", "0", "-", "2", "0", "0">>
R_MLB1_120_200 == <<"M", "L", "B", "1", "1", "2", "0", "-", "2", "0", "0">>
R_PWDpw == <<"P", "W", "D", "p", "w">>
R_SRVh == <<"S", "R", "V", "h">>
R_unknown == <<"X", "Y", "Z", "a", "b", "c">>
R_short == <<"A", "B">>
R_empty == <<>>
R_QLT_empty == <<"Q", "L", "T">>
R_QLT_alpha == <<"Q", "L", "T", "h", "i">>
R_ECD_empty == <<"E", "C", "D">>
R_QNT_empty == <<"Q", "N", "T">>
R_RSZ_alpha == <<"R", "S", "Z", "a", "x", "b">>
R_RSZ_nox == <<"R", "S", "Z">>
R_SCA_empty == <<"S", "C", "A">>
R_MLB_noargs == <<"M", "L", "B">>
R_MMO_alpha == <<"M", "M", "O", "a", "-", "b">>

\* The bytes of one read: records joined by tabs.
RECURSIVE join(_)
join(recs) ==
    IF Len(recs) = 0 THEN <<>>
    ELSE IF Len(recs) = 1 THEN recs[1]
    ELSE recs[1] \o <<TAB>> \o join(Tail(recs))


(***************************************************************************)
(* What is observed of a run: history the claims are stated with, computed *)
(* from the effect of each handler.                                        *)
(***************************************************************************)
Images(wrote) == SelectSeq(wrote, LAMBDA w : w.kind = "image")

RegionCounted(l) ==
    /\ l.op = "wf_myrtille_send_region"
    /\ settings.MyrtilleSessionId # 0 /\ primary
    /\ ~send_region_rejects(l.rect)

\* frames, framesBy: whether no frame, one frame or more were written so far
\* (by anyone, by each thread); lastIdx, prevIdx: the idx of the last frame
\* written and of the one before it; lastIdxBy, prevIdxBy: the same per thread.
Observe(o, l) ==
    LET imgs == Images(l.wrote) IN
    [readFailed |-> o.readFailed \/ (l.op = "ReadFile" /\ l.ret = <<"error">>),
     reads |-> IF l.op = "ReadFile" /\ l.ret # <<"error">> THEN o.reads + 1 ELSE o.reads,
     rdpCalls |-> IF l.thr = RDP THEN o.rdpCalls + 1 ELSE o.rdpCalls,
     frames |-> IF imgs # <<>> THEN Min(o.frames + 1, 2) ELSE o.frames,
     prevIdx |-> IF imgs # <<>> THEN o.lastIdx ELSE o.prevIdx,
     lastIdx |-> IF imgs # <<>> THEN imgs[1].meta.idx ELSE o.lastIdx,
     framesBy |-> IF imgs # <<>>
                  THEN [o.framesBy EXCEPT ![l.thr] = Min(o.framesBy[l.thr] + 1, 2)]
                  ELSE o.framesBy,
     prevIdxBy |-> IF imgs # <<>>
                   THEN [o.prevIdxBy EXCEPT ![l.thr] = o.lastIdxBy[l.thr]]
                   ELSE o.prevIdxBy,
     lastIdxBy |-> IF imgs # <<>>
                   THEN [o.lastIdxBy EXCEPT ![l.thr] = imgs[1].meta.idx]
                   ELSE o.lastIdxBy,
     calls |-> IF RegionCounted(l) THEN o.calls + 1 ELSE o.calls,
     passed |-> IF RegionCounted(l) /\ l.facade # <<>> THEN o.passed + 1 ELSE o.passed,
     count0 |-> o.count0,
     maxReads |-> o.maxReads, maxCalls |-> o.maxCalls]

\* Nothing observed yet; maxReads and maxCalls are the lengths the run is
\* followed to, count0 is image_count as the run starts.
ObsInit(maxReads, maxCalls) ==
    [readFailed |-> FALSE, reads |-> 0, rdpCalls |-> 0,
     frames |-> 0, prevIdx |-> 0, lastIdx |-> 0,
     framesBy |-> [t \in {READER, RDP} |-> 0],
     prevIdxBy |-> [t \in {READER, RDP} |-> 0],
     lastIdxBy |-> [t \in {READER, RDP} |-> 0],
     calls |-> 0, passed |-> 0, count0 |-> imageCount,
     maxReads |-> maxReads, maxCalls |-> maxCalls]

Observed == obs' = Observe(obs, last')

NoRect == [left |-> 0, top |-> 0, right |-> 0, bottom |-> 0]

NoEffect == Effect("start", RDP, <<>>, NoRect, <<>>, <<>>, <<>>, <<>>, <<>>)

(***************************************************************************)
(* wf_myrtille_start: the state the session starts in.                     *)
(***************************************************************************)
SettingsInit(sid, desktop) ==
    [MyrtilleSessionId |-> sid,
     DesktopWidth |-> desktop.w, DesktopHeight |-> desktop.h,
     ServerHostname |-> NullStr, ServerPort |-> 3389,
     Domain |-> NullStr, Username |-> NullStr, Password |-> NullStr,
     AlternateShell |-> NullStr, VmConnectMode |-> FALSE,
     NegotiateSecurityLayer |-> TRUE, SendPreconnectionPdu |-> FALSE,
     PreconnectionBlob |-> NullStr]

wf_myrtille_start(sid, desktop) ==
    /\ settings = SettingsInit(sid, desktop)
    /\ processInputs = TRUE
    /\ imageEncoding = ENCODING_AUTO
    /\ imageQuality = QUALITY_HIGH
    /\ imageQuantity = IMAGE_COUNT_SAMPLING_RATE
    /\ imageCount = 0
    /\ imageIdx = 0
    /\ scaleDisplay = FALSE
    /\ clientWidth = desktop.w
    /\ clientHeight = desktop.h
    /\ clipboardText = TxtClipboard
    /\ clipboardUpdated = FALSE

Desktop == [w |-> 1600, h |-> 1200]

PrinterInit(names) ==
    /\ printjob = NoJob
    /\ openJobs = 0
    /\ docOpen = 0
    /\ printerOpen = TRUE
    /\ printerFreed = FALSE
    /\ printerName \in names
    /\ closedJob = NoJob

ReaderNotStarted ==
    /\ rpc = "none"
    /\ inputs = <<>>
    /\ i = 1
    /\ teardown = <<>>
    /\ capture = NotCapturing
    /\ inputsPipe = <<>>

(***************************************************************************)
(* wf_myrtille_connect: connect the two pipes, start the reader.           *)
(***************************************************************************)
wf_myrtille_connect(connected) ==
    /\ rpc = "none"
    /\ IF settings.MyrtilleSessionId # 0 /\ connected
       THEN /\ rpc' = "loop"
            /\ last' = Effect("wf_myrtille_connect", RDP, <<>>, NoRect, <<"thread">>,
                              <<>>, <<>>, <<>>, <<>>)
       ELSE /\ rpc' = rpc
            /\ last' = Effect("wf_myrtille_connect", RDP, <<>>, NoRect, <<"NULL">>,
                              <<>>, <<>>, <<>>, <<>>)
    /\ obs' = obs
    /\ UNCHANGED <<capture, inputsPipe,
                   printerVars, ctxVars, myrtilleVars, inputs, i, teardown>>

(***************************************************************************)
(* processInputsPipe: the reader thread.                                   *)
(***************************************************************************)
\* while (myrtille->processInputs)
ReaderLoop ==
    /\ rpc = "loop"
    /\ rpc' = IF processInputs THEN "read" ELSE "CloseHandle(inputsPipe)"
    /\ UNCHANGED <<capture, inputsPipe,
                   printerVars, ctxVars, myrtilleVars, inputs, i, teardown, last, obs>>

ReadErrors ==
    {"ERROR_INVALID_HANDLE", "ERROR_PIPE_NOT_CONNECTED", "ERROR_PIPE_BUSY",
     "ERROR_BAD_PIPE", "ERROR_BROKEN_PIPE", "other"}

\* The flag left as it was on a read error.
read_error_keeps(pi) == pi

\* pipe problem; exit
read_error_processInputs(pi) == FALSE

\* ReadFile returned 0: whatever the error, log it and clear processInputs.
ReadFileFails(kind) ==
    /\ rpc = "read"
    /\ processInputs' = read_error_processInputs(processInputs)
    /\ rpc' = "loop"
    /\ inputs' = <<>>
    /\ i' = 1
    /\ last' = Effect("ReadFile", READER, <<>>, NoRect, <<"error">>, <<>>, <<>>, <<>>,
                      <<LogRec("ERR", "processInputsPipe: ReadFile failed", <<kind>>)>>)
    /\ Observed
    /\ UNCHANGED <<capture, inputsPipe,
                   printerVars, ctxVars, policyVars, counterVars, displayVars,
                   clipVars, teardown>>

\* ReadFile returned the bytes `message` (none when bytesRead is 0).
ReadFileGives(message) ==
    /\ rpc = "read"
    /\ obs.reads < obs.maxReads
    /\ inputs' = IF Len(message) > 0 THEN split(message, TAB) ELSE <<>>
    /\ i' = 1
    /\ rpc' = IF inputs' # <<>> THEN "dispatch" ELSE "loop"
    /\ last' = Effect("ReadFile", READER, message, NoRect, <<"ok">>, <<>>, <<>>, <<>>, <<>>)
    /\ Observed
    /\ UNCHANGED <<capture, printerVars, ctxVars, myrtilleVars, teardown>>

\* A read whose bytes are any the peer may have written.
ReadFileReturns(message) == ReadFileGives(message) /\ UNCHANGED inputsPipe

\* A read of the first n bytes in the channel: the handle is in byte mode
\* (CreateFile, no SetNamedPipeHandleState), so a read returns what has
\* arrived, up to the size of the buffer, wherever the peer's records end.
ReadFileReads(n) ==
    /\ n \in 1..Len(inputsPipe)
    /\ ReadFileGives(SubSeq(inputsPipe, 1, n))
    /\ inputsPipe' = SubSeq(inputsPipe, n + 1, Len(inputsPipe))

\* What the collaborators may answer during one record.
Sizes == {[png |-> 0, jpg |-> 2, webp |-> 0, failed |-> {}],
          [png |-> 2, jpg |-> 3, webp |-> 1, failed |-> {}],
          [png |-> 3, jpg |-> 2, webp |-> 2, failed |-> {}]}

\* The collaborators a record's handler consults: the encoders and the
\* updates channel for FSU, the updates channel for the text messages,
\* CreateThread for CON.  The others are given one answer, which no handler
\* reads.
DispatchEnvs(rec) ==
    LET command == IF substr_throws(rec, 3) THEN "none"
                   ELSE commandMap_lookup(substr(rec, 0, 3))
        image == command = "REQUEST_FULLSCREEN_UPDATE"
        text == command \in {"SET_STAT_MODE", "SET_DEBUG_MODE", "SET_COMPATIBILITY_MODE",
                             "SET_SCALE_DISPLAY", "REQUEST_REMOTE_CLIPBOARD"}
    IN  {[sz |-> sz, ok |-> ok, fmt |-> fmt, created |-> cr] :
            sz \in IF image THEN Sizes ELSE {[png |-> 0, jpg |-> 0, webp |-> 0, failed |-> {}]},
            ok \in IF image \/ text THEN WriteOutcomes ELSE {FALSE},
            fmt \in IF text THEN BOOLEAN ELSE {TRUE},
            cr \in IF command = "CONNECT_CLIENT" THEN BOOLEAN ELSE {FALSE}}

\* One record of the batch.  An exception no handler catches, or a division
\* by zero, ends the process where it stands: no teardown runs.
DispatchRecord ==
    /\ rpc = "dispatch"
    /\ i <= Len(inputs)
    /\ \E env \in DispatchEnvs(inputs[i]) : \E d \in {dispatch(inputs[i], env)} :
       /\ settings' = d.settings
       /\ clientThreads' = d.clientThreads
       /\ processInputs' = d.processInputs
       /\ imageEncoding' = d.imageEncoding
       /\ imageQuality' = d.imageQuality
       /\ imageQuantity' = d.imageQuantity
       /\ imageCount' = d.imageCount
       /\ imageIdx' = d.imageIdx
       /\ scaleDisplay' = d.scaleDisplay
       /\ clientWidth' = d.clientWidth
       /\ clientHeight' = d.clientHeight
       /\ i' = IF d.throws THEN i ELSE i + 1
       /\ rpc' = IF d.throws THEN "aborted"
                 ELSE IF i + 1 <= Len(inputs) THEN "dispatch" ELSE "loop"
       /\ last' = Effect("dispatch", READER, inputs[i], NoRect,
                         IF d.throws THEN <<"throw">> ELSE <<>>,
                         <<>>, d.facade, d.wrote, d.log)
    /\ Observed
    /\ UNCHANGED <<capture, inputsPipe,
                   printerVars, primary, cliprdr, clipVars, inputs, teardown>>

\* After the loop: CloseHandle twice, GdiplusShutdown, exit.
TeardownOrder ==
    <<"CloseHandle(inputsPipe)", "CloseHandle(updatesPipe)", "GdiplusShutdown">>

ReaderTeardown ==
    /\ rpc \in Range(TeardownOrder)
    /\ teardown' = Append(teardown, rpc)
    /\ rpc' = IF Len(teardown') < Len(TeardownOrder)
              THEN TeardownOrder[Len(teardown') + 1] ELSE "exit"
    /\ UNCHANGED <<capture, inputsPipe,
                   printerVars, ctxVars, myrtilleVars, inputs, i, last, obs>>

ReaderExit ==
    /\ rpc = "exit"
    /\ rpc' = "exited"
    /\ UNCHANGED <<capture, inputsPipe,
                   printerVars, ctxVars, myrtilleVars, inputs, i, teardown, last, obs>>


(***************************************************************************)
(* The hooks the RDP client thread calls (wf_client_thread, spawned by     *)
(* CON): capture callbacks, clipboard callbacks, the disconnect.           *)
(***************************************************************************)
RdpThreadRuns ==
    /\ ProcessAlive /\ clientThreads > 0 /\ obs.rdpCalls < obs.maxCalls
    /\ capture = NotCapturing

\* The rectangles, encoder outputs and cursors the callbacks are given.
Regions ==
    {[left |-> 100, top |-> 100, right |-> 300, bottom |-> 200],
     [left |-> 300, top |-> 100, right |-> 100, bottom |-> 200]}

Px(r, g, b) == [r |-> r, g |-> g, b |-> b]

Cursor(pixels) ==
    [pixels |-> pixels, xHotspot |-> 1, yHotspot |-> 2, width |-> 32, height |-> 32]

Cursors ==
    {Cursor(<<Px(0, 0, 255), Px(0, 0, 0)>>),
     Cursor(<<Px(0, 0, 255), Px(255, 255, 0)>>)}

\* What a capture hook returned, applied to the session.
Captured(op, rect, c) ==
    /\ imageCount' = c.imageCount
    /\ imageIdx' = c.imageIdx
    /\ processInputs' = c.processInputs
    /\ last' = Effect(op, RDP, <<>>, rect, <<>>, <<>>, c.facade, c.wrote, c.log)
    /\ Observed
    /\ UNCHANGED <<capture, inputsPipe,
                   printerVars, ctxVars, policyVars, displayVars, clipVars, readerVars>>

SendScreen(sz, ok) ==
    /\ RdpThreadRuns
    /\ Captured("wf_myrtille_send_screen", NoRect, wf_myrtille_send_screen(sz, ok))

SendRegion(region, sz, ok) ==
    /\ RdpThreadRuns
    /\ Captured("wf_myrtille_send_region", region,
                wf_myrtille_send_region(region, sz, ok))

SendCursor(cursor, pngSize, ok) ==
    /\ RdpThreadRuns
    /\ Captured("wf_myrtille_send_cursor", NoRect,
                wf_myrtille_send_cursor(cursor, pngSize, ok))

wf_myrtille_stop ==
    /\ RdpThreadRuns
    /\ processInputs' = IF settings.MyrtilleSessionId = 0 THEN processInputs ELSE FALSE
    /\ last' = Effect("wf_myrtille_stop", RDP, <<>>, NoRect, <<>>, <<>>, <<>>, <<>>, <<>>)
    /\ Observed
    /\ UNCHANGED <<capture, inputsPipe,
                   printerVars, ctxVars, policyVars, counterVars, displayVars,
                   clipVars, readerVars>>

wf_myrtille_reset_clipboard ==
    /\ RdpThreadRuns
    /\ IF settings.MyrtilleSessionId = 0
       THEN UNCHANGED clipVars
       ELSE /\ clipboardText' = TxtClipboard
            /\ clipboardUpdated' = TRUE
    /\ last' = Effect("wf_myrtille_reset_clipboard", RDP, <<>>, NoRect, <<>>, <<>>,
                      <<>>, <<>>, <<>>)
    /\ Observed
    /\ UNCHANGED <<capture, inputsPipe,
                   printerVars, ctxVars, processInputs, policyVars, counterVars,
                   displayVars, readerVars>>

\* The bytes the remote clipboard delivers; NUL bytes are left out of the text.
NUL == "\\0"

ClipboardData == {<<"a", NUL, "b", NUL>>, <<>>}

send_clipboard_text(data) == TxtClipboard \o SelectSeq(data, LAMBDA c : c # NUL)

wf_myrtille_send_clipboard(data, ok, fmt) ==
    /\ RdpThreadRuns
    /\ IF settings.MyrtilleSessionId = 0
       THEN /\ UNCHANGED <<clipVars, processInputs, rpc>>
            /\ last' = Effect("wf_myrtille_send_clipboard", RDP, data, NoRect, <<>>,
                              <<>>, <<>>, <<>>, <<>>)
       ELSE LET text == send_clipboard_text(data) IN
            /\ clipboardText' = text
            /\ clipboardUpdated' = FALSE
            /\ processInputs' = sendMessage_processInputs(processInputs, ok)
            /\ rpc' = IF sendMessage_throws(ok, fmt) THEN "aborted" ELSE rpc
            /\ last' = Effect("wf_myrtille_send_clipboard", RDP, data, NoRect,
                              IF sendMessage_throws(ok, fmt) THEN <<"throw">> ELSE <<>>,
                              <<>>, <<>>, sendMessage_wrote(text, ok),
                              sendMessage_log(text, ok))
    /\ Observed
    /\ UNCHANGED <<capture, inputsPipe,
                   printerVars, ctxVars, policyVars, counterVars, displayVars,
                   inputs, i, teardown>>

\* wf_myrtille_send_printjob, reached from printer_win_close_printjob through
\* the ClientPrint entry point.
\* The text without the ".pdf" that follows the name.
send_printjob_text_without_pdf(printJobName) == TxtPrintjob \o printJobName

send_printjob_text(printJobName) == TxtPrintjob \o printJobName \o TxtPdf

wf_myrtille_send_printjob(printJobName, ok) ==
    IF settings.MyrtilleSessionId = 0
    THEN [wrote |-> <<>>, log |-> <<>>, processInputs |-> processInputs]
    ELSE [wrote |-> sendMessage_wrote(send_printjob_text(printJobName), ok),
          log |-> sendMessage_log(send_printjob_text(printJobName), ok),
          processInputs |-> sendMessage_processInputs(processInputs, ok)]


(***************************************************************************)
(* printer_win.c: the print jobs of one printer.                           *)
(***************************************************************************)
MyrtillePDF == "Myrtille PDF"

PrinterNames == {MyrtillePDF, "Other"}

\* "FREERDPjob", then the process id and the tick count as snprintf prints
\* them into char[10].
JobName == <<"F", "R", "E", "E", "R", "D", "P", "j", "o", "b">>

Pids == {<<"4", "2">>}

Ticks == {<<"7">>, <<"8">>}

\* ConvertToUnicode(CP_UTF8, ...) of text the model writes (ASCII): one
\* 16-bit unit per character, the character in its low byte.
ConvertToUnicode(text) == [k \in DOMAIN text |-> [lo |-> text[k], hi |-> 0]]

\* ConvertFromUnicode(CP_UTF8, ...) of such units: one byte per unit.
ConvertFromUnicode(wide) == [k \in DOMAIN wide |-> wide[k].lo]

\* if (printer->rdpcontext->settings->MyrtilleSessionId != 0 &&
\*     strcmp(printer->name, "Myrtille PDF") == 0)
printer_is_myrtille_any_session == printerName = MyrtillePDF

printer_is_myrtille == settings.MyrtilleSessionId # 0 /\ printerName = MyrtillePDF

\* The busy check left out.
create_printjob_never_busy(pj) == FALSE

\* if (win_printer->printjob != NULL) return NULL;
create_printjob_busy(pj) == pj # NoJob

\* The job linked to the printer before the spooler is called.
create_printjob_failed_keeps_job(pj, id, doc) == [id |-> id, doc |-> doc]

\* free(win_printjob); return NULL; after StartDocPrinter or StartPagePrinter
\* failed: win_printer->printjob is assigned only once both succeeded.
create_printjob_failed(pj, id, doc) == pj

\* What the allocator, the converter and the spooler answer during a create.
CreateOutcomes ==
    {[calloc |-> a, conv |-> c, startDoc |-> d, startPage |-> g, pid |-> pid, tick |-> t] :
        a \in BOOLEAN, c \in BOOLEAN, d \in BOOLEAN, g \in BOOLEAN,
        pid \in Pids, t \in Ticks}

Created(ret, spool, log) ==
    last' = Effect("printer_win_create_printjob", CHANNEL, <<>>, NoRect, ret, spool,
                   <<>>, <<>>, log)

printer_win_create_printjob(id, out) ==
    /\ ProcessAlive /\ ~printerFreed
    /\ LET doc == IF printer_is_myrtille
                  THEN ConvertToUnicode(JobName \o out.pid \o out.tick)
                  ELSE ConvertToUnicode(JobName)
       IN
       IF create_printjob_busy(printjob)
       THEN /\ Created(<<"NULL">>, <<>>, <<>>)
            /\ UNCHANGED <<printjob, openJobs, docOpen>>
       ELSE IF ~out.calloc
       THEN /\ Created(<<"NULL">>, <<>>, <<>>)
            /\ UNCHANGED <<printjob, openJobs, docOpen>>
       ELSE IF printer_is_myrtille /\ ~out.conv
       THEN /\ Created(<<"NULL">>, <<>>, <<>>)
            /\ UNCHANGED <<printjob, openJobs, docOpen>>
       ELSE IF ~out.startDoc
       THEN /\ Created(<<"NULL">>, <<"StartDocPrinter">>,
                       <<LogRec("ERR", "printer_win_create_printjob: StartDocPrinter failed",
                                <<>>)>>)
            /\ printjob' = create_printjob_failed(printjob, id, doc)
            /\ UNCHANGED <<openJobs, docOpen>>
       ELSE IF ~out.startPage
       THEN /\ docOpen < MaxDocs
            /\ Created(<<"NULL">>, <<"StartDocPrinter", "StartPagePrinter">>, <<>>)
            /\ docOpen' = docOpen + 1
            /\ printjob' = create_printjob_failed(printjob, id, doc)
            /\ UNCHANGED openJobs
       ELSE /\ docOpen < MaxDocs
            /\ Created(<<"job">>, <<"StartDocPrinter", "StartPagePrinter">>, <<>>)
            /\ printjob' = [id |-> id, doc |-> doc]
            /\ openJobs' = openJobs + 1
            /\ docOpen' = docOpen + 1
    /\ Observed
    /\ UNCHANGED <<capture, inputsPipe,
                   printerOpen, printerFreed, printerName, closedJob, sessionVars>>

printer_win_find_printjob(id) ==
    IF printjob = NoJob THEN NoJob
    ELSE IF printjob.id # id THEN NoJob
    ELSE printjob

printer_win_write_printjob(id, written) ==
    /\ ProcessAlive /\ ~printerFreed
    /\ printer_win_find_printjob(id) # NoJob
    /\ last' = Effect("printer_win_write_printjob", CHANNEL, <<>>, NoRect,
                      IF written THEN <<"CHANNEL_RC_OK">> ELSE <<"ERROR_INTERNAL_ERROR">>,
                      <<"WritePrinter">>, <<>>, <<>>, <<>>)
    /\ Observed
    /\ UNCHANGED <<capture, inputsPipe, printerVars, sessionVars>>

\* What the spooler, the converter and the updates channel answer during a
\* close.
CloseOutcomes ==
    {[endPage |-> p, endDoc |-> d, conv |-> c, ok |-> ok, fmt |-> f] :
        p \in BOOLEAN, d \in BOOLEAN, c \in BOOLEAN, ok \in WriteOutcomes, f \in BOOLEAN}

\* The spooler calls of a close with ClosePrinter after them.
close_printjob_spool_with_printer == <<"EndPagePrinter", "EndDocPrinter", "ClosePrinter">>

\* The spooler calls of a close: no ClosePrinter.
close_printjob_spool == <<"EndPagePrinter", "EndDocPrinter">>

\* The body of printer_win_close_printjob on the job `job`.
close_printjob(job, out) ==
    LET notify == printer_is_myrtille /\ out.conv
        printJobName == ConvertFromUnicode(job.doc)
        m == wf_myrtille_send_printjob(printJobName, out.ok)
    IN  [spool |-> close_printjob_spool,
         log |-> (IF out.endPage THEN <<>>
                  ELSE <<LogRec("ERR", "printer_win_close_printjob: EndPagePrinter failed",
                                <<>>)>>)
                 \o (IF out.endDoc THEN <<>>
                     ELSE <<LogRec("ERR", "printer_win_close_printjob: EndDocPrinter failed",
                                   <<>>)>>)
                 \o (IF notify THEN m.log ELSE <<>>),
         docOpen |-> IF out.endDoc /\ docOpen > 0 THEN docOpen - 1 ELSE docOpen,
         facade |-> IF notify THEN <<Call("ClientPrint", {}, <<>>, printJobName)>> ELSE <<>>,
         wrote |-> IF notify THEN m.wrote ELSE <<>>,
         processInputs |-> IF notify THEN m.processInputs ELSE processInputs,
         throws |-> notify /\ m.wrote # <<>> /\ sendMessage_throws(out.ok, out.fmt)]

printer_win_close_printjob(id, out) ==
    /\ ProcessAlive /\ ~printerFreed
    /\ printer_win_find_printjob(id) # NoJob
    /\ LET c == close_printjob(printjob, out) IN
       /\ docOpen' = c.docOpen
       /\ processInputs' = c.processInputs
       /\ printjob' = IF c.throws THEN printjob ELSE NoJob
       /\ closedJob' = IF c.throws THEN closedJob ELSE printjob
       /\ openJobs' = IF c.throws THEN openJobs ELSE openJobs - 1
       /\ rpc' = IF c.throws THEN "aborted" ELSE rpc
       /\ last' = Effect("printer_win_close_printjob", CHANNEL, <<>>, NoRect,
                         IF c.throws THEN <<"throw">> ELSE <<>>,
                         c.spool, c.facade, c.wrote, c.log)
    /\ Observed
    /\ UNCHANGED <<capture, inputsPipe,
                   printerOpen, printerFreed, printerName, ctxVars, policyVars,
                   counterVars, displayVars, clipVars, inputs, i, teardown>>

printer_win_free_printer(out, closed) ==
    /\ ProcessAlive /\ ~printerFreed
    /\ LET c == IF printjob # NoJob THEN close_printjob(printjob, out)
                ELSE [spool |-> <<>>, log |-> <<>>, docOpen |-> docOpen,
                      facade |-> <<>>, wrote |-> <<>>,
                      processInputs |-> processInputs, throws |-> FALSE]
       IN
       /\ docOpen' = c.docOpen
       /\ processInputs' = c.processInputs
       /\ printjob' = IF c.throws THEN printjob ELSE NoJob
       /\ closedJob' = IF c.throws \/ printjob = NoJob THEN closedJob ELSE printjob
       /\ openJobs' = IF c.throws \/ printjob = NoJob THEN openJobs ELSE openJobs - 1
       /\ rpc' = IF c.throws THEN "aborted" ELSE rpc
       /\ printerOpen' = IF c.throws THEN printerOpen ELSE ~closed
       /\ printerFreed' = ~c.throws
       /\ last' = Effect("printer_win_free_printer", CHANNEL, <<>>, NoRect,
                         IF c.throws THEN <<"throw">> ELSE <<>>,
                         IF c.throws THEN c.spool ELSE c.spool \o <<"ClosePrinter">>,
                         c.facade, c.wrote,
                         IF c.throws \/ closed THEN c.log
                         ELSE c.log \o <<LogRec("ERR",
                                  "printer_win_free_printer: ClosePrinter failed", <<>>)>>)
    /\ Observed
    /\ UNCHANGED <<capture, inputsPipe,
                   printerName, ctxVars, policyVars, counterVars, displayVars,
                   clipVars, inputs, i, teardown>>


(***************************************************************************)
(* The session: the reader thread on the inputs channel and the callbacks  *)
(* of the RDP client thread.                                               *)
(***************************************************************************)
SessionIds == {0, 1}

WellFormed ==
    {<<R_CON>>, <<R_STA>>, <<R_FSU>>, <<R_CLP>>, <<R_KUC65_1, R_CLO>>,
     <<R_CLO, R_FSU>>, <<R_ECD1, R_QLT75, R_FSU>>, <<R_QNT25>>,
     <<R_MWD120_200>>, <<R_PWDpw>>}

Unrecognized ==
    {<<R_unknown>>, <<R_short, R_KUC65_1, R_CLO>>, <<R_empty, R_CLO>>}

Malformed ==
    {<<R_QLT_empty>>, <<R_QLT_alpha>>, <<R_ECD_empty>>, <<R_QNT_empty>>,
     <<R_RSZ_alpha>>, <<R_RSZ_nox>>, <<R_SCA_empty>>, <<R_MLB_noargs>>,
     <<R_MMO_alpha>>}

\* What one read may return: a batch of records joined by tabs, or no byte.
Messages == {join(b) : b \in WellFormed \cup Unrecognized \cup Malformed} \cup {<<>>}

PngSizes == {0, 2}

SessionInit(maxReads, maxCalls) ==
    /\ \E sid \in SessionIds : wf_myrtille_start(sid, Desktop)
    /\ primary \in BOOLEAN
    /\ cliprdr = TRUE
    /\ clientThreads = 0
    /\ PrinterInit({MyrtillePDF})
    /\ ReaderNotStarted
    /\ last = NoEffect
    /\ obs = ObsInit(maxReads, maxCalls)

Init == SessionInit(MaxReads, MaxCalls)

Next ==
    \/ \E connected \in BOOLEAN : wf_myrtille_connect(connected)
    \/ ReaderLoop
    \/ \E kind \in ReadErrors : ReadFileFails(kind)
    \/ \E message \in Messages : ReadFileReturns(message)
    \/ DispatchRecord
    \/ ReaderTeardown
    \/ ReaderExit
    \/ wf_myrtille_stop
    \/ \E sz \in Sizes, ok \in WriteOutcomes : SendScreen(sz, ok)
    \/ \E region \in Regions, sz \in Sizes, ok \in WriteOutcomes :
          SendRegion(region, sz, ok)
    \/ \E cursor \in Cursors, pngSize \in PngSizes, ok \in WriteOutcomes :
          SendCursor(cursor, pngSize, ok)
    \/ wf_myrtille_reset_clipboard
    \/ \E data \in ClipboardData, ok \in WriteOutcomes, fmt \in BOOLEAN :
          wf_myrtille_send_clipboard(data, ok, fmt)

Spec == Init /\ [][Next]_vars


\* The reader's own steps are taken when they can be: the thread is scheduled
\* fairly.  Nothing makes a ReadFile return: that is up to the gateway.
ReaderFairness ==
    /\ WF_vars(ReaderLoop)
    /\ WF_vars(DispatchRecord)
    /\ WF_vars(ReaderTeardown)
    /\ WF_vars(ReaderExit)

SpecFair == Init /\ [][Next]_vars /\ ReaderFairness

(***************************************************************************)
(* A printer of a running session: the jobs the printer channel creates,   *)
(* writes, closes, and the release of the printer.                         *)
(***************************************************************************)
\* The session as it runs once CON was dispatched: the reader waits in
\* ReadFile, the client thread is there.  encoding, quality and quantity
\* are what the last ECD, QLT and QNT set,
\* count and idx are where the region calls and the frames so far have
\* taken image_count and image_idx; the rest is as wf_myrtille_start left it.
SessionRunsWith(sid, encoding, quality, quantity, count, idx) ==
    /\ settings = SettingsInit(sid, Desktop)
    /\ processInputs = TRUE
    /\ imageEncoding = encoding
    /\ imageQuality = quality
    /\ imageQuantity = quantity
    /\ imageCount = count
    /\ imageIdx = idx
    /\ scaleDisplay = FALSE
    /\ clientWidth = Desktop.w
    /\ clientHeight = Desktop.h
    /\ clipboardText = TxtClipboard
    /\ clipboardUpdated = FALSE
    /\ primary = TRUE
    /\ cliprdr = TRUE
    /\ clientThreads = IF sid = 0 THEN 0 ELSE 1
    /\ rpc = IF sid = 0 THEN "none" ELSE "read"
    /\ inputs = <<>>
    /\ i = 1
    /\ teardown = <<>>
    /\ capture = NotCapturing
    /\ inputsPipe = <<>>

\* encoding and quality as wf_myrtille_start sets them.
SessionRunsAt(sid, quantity, count, idx) ==
    SessionRunsWith(sid, ENCODING_AUTO, QUALITY_HIGH, quantity, count, idx)

SessionRuns(sid) ==
    /\ wf_myrtille_start(sid, Desktop)
    /\ primary = TRUE
    /\ cliprdr = TRUE
    /\ clientThreads = IF sid = 0 THEN 0 ELSE 1
    /\ rpc = IF sid = 0 THEN "none" ELSE "read"
    /\ inputs = <<>>
    /\ i = 1
    /\ teardown = <<>>
    /\ capture = NotCapturing
    /\ inputsPipe = <<>>

InitPrinter ==
    /\ \E sid \in SessionIds : SessionRuns(sid)
    /\ PrinterInit(PrinterNames)
    /\ last = NoEffect
    /\ obs = ObsInit(0, 0)

NextPrinter ==
    \/ \E id \in 1..MaxJobId, out \in CreateOutcomes : printer_win_create_printjob(id, out)
    \/ \E id \in 1..MaxJobId, written \in BOOLEAN : printer_win_write_printjob(id, written)
    \/ \E id \in 1..MaxJobId, out \in CloseOutcomes : printer_win_close_printjob(id, out)
    \/ \E out \in CloseOutcomes, closed \in BOOLEAN : printer_win_free_printer(out, closed)

SpecPrinter == InitPrinter /\ [][NextPrinter]_vars


(***************************************************************************)
(* Properties of the print jobs.                                           *)
(***************************************************************************)
\* C1: a printer holds at most one current job at any time, and a
\* create_printjob on a printer that has a current job returns no job and
\* has no side effect: the job, the printer and the spooler's documents are
\* unchanged, no spooler call is made, nothing is written.
C1_OneJobAndBusyHasNoEffect ==
    /\ [](openJobs <= 1 /\ (openJobs = 1 <=> printjob # NoJob))
    /\ [][\A id \in 1..MaxJobId, out \in CreateOutcomes :
             (printjob # NoJob /\ printer_win_create_printjob(id, out))
                => /\ last'.ret = <<"NULL">>
                   /\ last'.spool = <<>>
                   /\ last'.wrote = <<>>
                   /\ printerVars' = printerVars]_vars

\* A create_printjob has just been refused on a printer that holds a job.
C1_Witness ==
    /\ last.op = "printer_win_create_printjob"
    /\ last.ret = <<"NULL">>
    /\ printjob # NoJob
    /\ openJobs = 1

(***************************************************************************)
(* Properties of the reader and of the updates channel.                    *)
(***************************************************************************)
FailedWrites(wrote) == SelectSeq(wrote, LAMBDA w : ~w.ok)

\* C2: whenever a write on the updates channel fails, be it an image frame
\* or a text message (reload, clipboard, printjob), processInputs is false
\* once the handler that wrote has returned (a handler the process ended in
\* has not returned).
C2_WriteFailureClearsProcessInputs ==
    (FailedWrites(last.wrote) # <<>> /\ rpc # "aborted") => ~processInputs

\* C3: once a read of the inputs channel has failed, whatever the error:
\* processInputs is false, the reader is past its loop's test or in the
\* teardown (it neither reads nor dispatches any more, and the failed read
\* itself left no record to dispatch), the teardown calls made so far are a
\* prefix of CloseHandle(inputsPipe), CloseHandle(updatesPipe),
\* GdiplusShutdown, and the reader reaches exit() only with all three made.
C3_ReadFailureTearsDown ==
    obs.readFailed =>
        /\ ~processInputs
        /\ rpc \notin {"none", "read", "dispatch"}
        /\ last.op # "dispatch"
        /\ (last.op = "ReadFile" => last.ret = <<"error">> /\ inputs = <<>>)
        /\ teardown \in {<<>>,
                         <<"CloseHandle(inputsPipe)">>,
                         <<"CloseHandle(inputsPipe)", "CloseHandle(updatesPipe)">>,
                         <<"CloseHandle(inputsPipe)", "CloseHandle(updatesPipe)",
                           "GdiplusShutdown">>}
        /\ (rpc \in {"exit", "exited"} =>
               teardown = <<"CloseHandle(inputsPipe)", "CloseHandle(updatesPipe)",
                            "GdiplusShutdown">>)

\* A read failed and the process has exited through the teardown.
C3_Witness ==
    /\ obs.readFailed
    /\ rpc = "exited"
    /\ Len(teardown) = 3

Running == rpc \in {"loop", "read", "dispatch"}

Terminating == Len(teardown) = Len(TeardownOrder)

\* C4: whenever processInputs is false while the session is Running, the
\* reader eventually leaves its loop and the session reaches Terminating
\* (both channels closed, encoders shut down), the reader thread being
\* scheduled fairly.  A run whose process is ended by an exception is left
\* out: what is asked is only that the reader does not stay in its loop.
C4_StopLeadsToTerminating ==
    (Running /\ ~processInputs) ~> (Terminating \/ rpc = "aborted")

Tag(rec) == substr(rec, 0, 3)

Recognized(rec) == Len(rec) >= 3 /\ Tag(rec) \in DOMAIN commandMap

\* C5: when the batch of a read holds CLO, then once the reader is done with
\* the batch every record of it, those before CLO included, was dispatched,
\* and the reader is on its way out: it does not read again and the process
\* was not ended otherwise.
C5_CloseAfterBatch ==
    (rpc # "dispatch" /\ \E k \in DOMAIN inputs : inputs[k] = R_CLO) =>
        /\ i > Len(inputs)
        /\ rpc \notin {"read", "aborted"}

\* C6: a record whose first three characters are no recognized tag, a
\* record shorter than three characters included, is ignored: no facade
\* call, no change of the connection settings or of the image policy, no
\* message on the updates channel, and the reader goes on with the next
\* record.
C6_UnrecognizedIgnored ==
    [][(DispatchRecord /\ ~Recognized(inputs[i])) =>
           /\ last'.facade = <<>>
           /\ last'.wrote = <<>>
           /\ settings' = settings
           /\ policyVars' = policyVars
           /\ rpc' # "aborted"
           /\ i' = i + 1]_vars

\* The records C7 is about: a recognized tag, arguments that are empty or
\* not numbers.
MalformedRecords ==
    {R_RSZ_nox, R_RSZ_alpha, R_SCA_empty, R_ECD_empty, R_QLT_empty, R_QLT_alpha,
     R_QNT_empty, R_MLB_noargs, R_MMO_alpha}

\* C7: a record with a recognized tag and malformed arguments is skipped:
\* policy and settings unchanged, no facade call, the reader does not
\* terminate and processInputs is not cleared.
C7_MalformedSkipped ==
    [][(DispatchRecord /\ inputs[i] \in MalformedRecords) =>
           /\ settings' = settings
           /\ policyVars' = policyVars
           /\ displayVars' = displayVars
           /\ last'.facade = <<>>
           /\ processInputs' = processInputs
           /\ rpc' # "aborted"
           /\ i' = i + 1]_vars


(***************************************************************************)
(* The rate controller: region calls under a fixed quantity, from any      *)
(* value of image_count, the ones next to INT_MAX included.                *)
(***************************************************************************)
MaxStart == 19          \* image_count starts within MaxStart of 0 or of INT_MAX
MaxRateCalls == 30      \* region calls per run

Quantities == {5, 10, 20, 25, 50, 100, 30}

CountStarts == (0..MaxStart) \cup {INT_MAX - k : k \in 0..MaxStart}

RateSizes == {[png |-> 2, jpg |-> 3, webp |-> 1, failed |-> {}]}

\* The session after a QNT command and some region calls.
InitRate ==
    /\ \E quantity \in Quantities, count \in CountStarts :
          SessionRunsAt(1, quantity, count, 0)
    /\ PrinterInit({MyrtillePDF})
    /\ last = NoEffect
    /\ obs = ObsInit(0, MaxRateCalls)

NextRate ==
    \E region \in Regions, sz \in RateSizes : SendRegion(region, sz, TRUE)

SpecRate == InitRate /\ [][NextRate]_vars

\* The period of the regulator under quantity q.
Period(q) == IMAGE_COUNT_SAMPLING_RATE \div q

Regulated(q) == q \in {5, 10, 20, 25, 50}

\* The last call was a region call with a valid rectangle.
RegionCall == last.op = "wf_myrtille_send_region" /\ ~send_region_rejects(last.rect)

\* C9: from a fresh session (image_count = 0) and with the quantity fixed at
\* q, the k-th region call with a valid rectangle is passed on for capture
\* exactly when q is none of 5, 10, 20, 25, 50 (100 included) or k is a
\* multiple of 100/q, and is dropped otherwise.
C9_KthCallPassesOnPeriod ==
    (obs.count0 = 0 /\ RegionCall) =>
        /\ imageCount = obs.calls
        /\ (last.facade # <<>>) <=>
              (~Regulated(imageQuantity) \/ obs.calls % Period(imageQuantity) = 0)
        /\ obs.passed = IF Regulated(imageQuantity)
                        THEN obs.calls \div Period(imageQuantity)
                        ELSE obs.calls

\* quantity 25, fresh session: 8 region calls made, the 8th just passed,
\* two passed in all (the 4th and the 8th).
C9_Witness ==
    /\ obs.count0 = 0 /\ imageQuantity = 25
    /\ RegionCall /\ obs.calls = 8 /\ last.facade # <<>> /\ obs.passed = 2

MaxIdxBack == 2         \* image_idx starts at 0 or within MaxIdxBack of INT_MAX
MaxIdxReads == 1        \* reads that return data, per run
MaxIdxCalls == 3        \* callbacks of the RDP client thread, per run

IdxStarts == {0} \cup {INT_MAX - k : k \in 0..MaxIdxBack}

IdxMessages == {join(<<R_FSU>>), join(<<R_FSU, R_FSU>>)}

\* The session after frames were sent (full screens and cursors leave
\* image_count alone).
InitIdx ==
    /\ \E idx \in IdxStarts : SessionRunsAt(1, IMAGE_COUNT_SAMPLING_RATE, 0, idx)
    /\ PrinterInit({MyrtillePDF})
    /\ last = NoEffect
    /\ obs = ObsInit(MaxIdxReads, MaxIdxCalls)

NextIdx ==
    \/ ReaderLoop
    \/ \E message \in IdxMessages : ReadFileReturns(message)
    \/ DispatchRecord
    \/ ReaderTeardown
    \/ ReaderExit
    \/ \E sz \in Sizes, ok \in WriteOutcomes : SendScreen(sz, ok)
    \/ \E region \in Regions, sz \in Sizes, ok \in WriteOutcomes :
          SendRegion(region, sz, ok)
    \/ \E cursor \in Cursors, pngSize \in PngSizes, ok \in WriteOutcomes :
          SendCursor(cursor, pngSize, ok)

SpecIdx == InitIdx /\ [][NextIdx]_vars

MaxPolicyCalls == 2     \* callbacks of the RDP client thread, per run

\* The four encodings and a value ECD can store that is none of them.
Encodings == {ENCODING_AUTO, ENCODING_PNG, ENCODING_JPEG, ENCODING_WEBP, 7}

Qualities == {QUALITY_LOW, QUALITY_HIGH, QUALITY_HIGHER, 33}

InitPolicy ==
    /\ \E encoding \in Encodings, quality \in Qualities :
          SessionRunsWith(1, encoding, quality, IMAGE_COUNT_SAMPLING_RATE, 0, 0)
    /\ PrinterInit({MyrtillePDF})
    /\ last = NoEffect
    /\ obs = ObsInit(0, MaxPolicyCalls)

NextPolicy ==
    \/ \E sz \in Sizes, ok \in WriteOutcomes : SendScreen(sz, ok)
    \/ \E region \in Regions, sz \in Sizes, ok \in WriteOutcomes :
          SendRegion(region, sz, ok)
    \/ \E cursor \in Cursors, pngSize \in PngSizes, ok \in WriteOutcomes :
          SendCursor(cursor, pngSize, ok)

SpecPolicy == InitPolicy /\ [][NextPolicy]_vars

\* The frames of a full screen or of a region among the writes of a handler.
ScreenFrames(wrote) ==
    SelectSeq(wrote, LAMBDA w : w.kind = "image" /\ w.meta.format # FORMAT_CUR)

\* C11: every full-screen or region frame written reports the quality
\* HIGHEST when its format is PNG (the encoding being PNG, or AUTO having
\* chosen PNG), else HIGHER when it is a full-screen frame, else the
\* quality of the policy.
C11_ReportedQuality ==
    \A k \in DOMAIN ScreenFrames(last.wrote) :
        LET m == ScreenFrames(last.wrote)[k].meta IN
        m.quality = IF m.format = FORMAT_PNG THEN QUALITY_HIGHEST
                    ELSE IF m.fullscreen = 1 THEN QUALITY_HIGHER
                    ELSE imageQuality

\* A full-screen frame that is not PNG was written under a policy quality
\* that is not HIGHER.
C11_Witness ==
    /\ imageQuality # QUALITY_HIGHER
    /\ \E k \in DOMAIN ScreenFrames(last.wrote) :
          LET m == ScreenFrames(last.wrote)[k].meta IN
          m.format \in {FORMAT_JPEG, FORMAT_WEBP} /\ m.fullscreen = 1
             /\ m.quality = QUALITY_HIGHER


(***************************************************************************)
(* The batch ECD1, QLT75, FSU.                                             *)
(***************************************************************************)
EncodeQualityScreen == <<R_ECD1, R_QLT75, R_FSU>>

\* ECD1 and QLT75 of the batch were dispatched, FSU is next; the session
\* has a primary surface.
AtScreenOfBatch ==
    /\ rpc = "dispatch"
    /\ inputs = EncodeQualityScreen
    /\ i = 3
    /\ primary

OnePngScreenFrame(wrote) ==
    /\ Len(wrote) = 1
    /\ wrote[1].kind = "image"
    /\ wrote[1].meta.format = FORMAT_PNG
    /\ wrote[1].meta.quality = QUALITY_HIGHEST
    /\ wrote[1].meta.fullscreen = 1

\* C12, as the code has it: once the reader has dispatched ECD1 and QLT75
\* of the batch ECD1, QLT75, FSU the policy is (encoding PNG, quality 75,
\* which is HIGHER: QLT stores its value after ECD reset the quality to
\* HIGH) and the reader has written no frame if the batch is the first it
\* read; with a primary surface and a PNG encoder that works, FSU then
\* writes exactly one frame, of format PNG, quality HIGHEST and fullscreen
\* flag 1, and leaves the policy as it is.
C12_BatchPolicyAndFrame ==
    AtScreenOfBatch =>
        /\ imageEncoding = ENCODING_PNG
        /\ imageQuality = QUALITY_HIGHER
        /\ (obs.reads = 1 => obs.framesBy[READER] = 0)
        /\ \A env \in DispatchEnvs(inputs[i]) :
              env.sz.png > 0 =>
                 \A d \in {dispatch(inputs[i], env)} :
                    /\ OnePngScreenFrame(d.wrote)
                    /\ d.imageEncoding = ENCODING_PNG
                    /\ d.imageQuality = QUALITY_HIGHER
                    /\ ~d.throws

\* The batch was dispatched to its end and its FSU wrote the one frame.
C12_Witness ==
    /\ inputs = EncodeQualityScreen
    /\ i = 4
    /\ rpc = "loop"
    /\ OnePngScreenFrame(last.wrote)
    /\ imageEncoding = ENCODING_PNG
    /\ imageQuality = QUALITY_HIGHER

\* C12, as stated: after the batch ECD1, QLT75, FSU the policy is (encoding
\* PNG, quality HIGH), and the frame written, if the PNG encoder produced
\* one, is PNG, HIGHEST, fullscreen.
C12_PolicyHighAfterBatch ==
    (inputs = EncodeQualityScreen /\ i = 4 /\ rpc = "loop" /\ primary) =>
        /\ imageEncoding = ENCODING_PNG
        /\ imageQuality = QUALITY_HIGH
        /\ (last.wrote # <<>> => OnePngScreenFrame(last.wrote))


(***************************************************************************)
(* The bytes on the updates channel.                                       *)
(***************************************************************************)
\* The u32 a reader of the channel decodes, little-endian, at an offset.
le32(bytes, offset) ==
    bytes[offset + 1] + 256 * bytes[offset + 2] + 65536 * bytes[offset + 3]
        + 16777216 * bytes[offset + 4]

IsBytes(bytes) == \A k \in DOMAIN bytes : bytes[k] \in 0..255

\* C13: every image frame is written as total_len, tag, idx, pos_x, pos_y,
\* width, height, format, quality, fullscreen_flag, each a little-endian
\* u32, followed by the payload, with tag = 0, total_len = 36 + the payload
\* length and fullscreen_flag 0 or 1.
C13_ImageFrameLayout ==
    \A k \in DOMAIN Images(last.wrote) :
        LET w == Images(last.wrote)[k]
            h == w.header
        IN  /\ Len(h) = 40 /\ IsBytes(h)
            /\ w.bytesToWrite = 40 + w.size
            /\ w.size > 0
            /\ le32(h, 0) = 36 + w.size
            /\ le32(h, 4) = 0
            /\ le32(h, 8) = w.meta.idx
            /\ le32(h, 12) = w.meta.posX
            /\ le32(h, 16) = w.meta.posY
            /\ le32(h, 20) = w.meta.width
            /\ le32(h, 24) = w.meta.height
            /\ le32(h, 28) = w.meta.format
            /\ le32(h, 32) = w.meta.quality
            /\ le32(h, 36) = w.meta.fullscreen
            /\ le32(h, 36) \in {0, 1}

\* A full-screen frame with an idx that fills the four bytes was written.
C13_Witness ==
    \E k \in DOMAIN Images(last.wrote) :
        LET w == Images(last.wrote)[k] IN
        /\ w.meta.idx = INT_MAX
        /\ w.meta.fullscreen = 1
        /\ w.meta.width = Desktop.w
        /\ w.header[9] = 255 /\ w.header[12] = 127


(***************************************************************************)
(* The text messages: reload (STA, SCA), the clipboard (CLP, the clipboard *)
(* callbacks) and the print job notification (a job closed on a printer).  *)
(***************************************************************************)
MaxTextReads == 1       \* reads that return data, per run
MaxTextCalls == 1       \* callbacks of the RDP client thread, per run

TextMessages == {join(<<R_STA>>), join(<<R_CLP>>), join(<<R_SCA800x600>>)}

InitText ==
    /\ SessionRuns(1)
    /\ PrinterInit(PrinterNames)
    /\ last = NoEffect
    /\ obs = ObsInit(MaxTextReads, MaxTextCalls)

NextText ==
    \/ ReaderLoop
    \/ \E message \in TextMessages : ReadFileReturns(message)
    \/ DispatchRecord
    \/ wf_myrtille_reset_clipboard
    \/ \E data \in ClipboardData, ok \in WriteOutcomes, fmt \in BOOLEAN :
          wf_myrtille_send_clipboard(data, ok, fmt)
    \/ \E id \in 1..MaxJobId, out \in CreateOutcomes : printer_win_create_printjob(id, out)
    \/ \E id \in 1..MaxJobId, out \in CloseOutcomes : printer_win_close_printjob(id, out)

SpecText == InitText /\ [][NextText]_vars

TextWrites(wrote) == SelectSeq(wrote, LAMBDA w : w.kind = "message")

StartsWith(text, prefix) ==
    Len(text) >= Len(prefix) /\ SubSeq(text, 1, Len(prefix)) = prefix

\* C14: every text message written to the updates channel (reload, the
\* clipboard text, the print job notification) is a 4-byte little-endian
\* length followed by exactly that many bytes of text, the length being
\* greater than 0; the clipboard text always begins with "clipboard|".
C14_TextMessageLayout ==
    /\ StartsWith(clipboardText, TxtClipboard)
    /\ \A k \in DOMAIN TextWrites(last.wrote) :
          LET w == TextWrites(last.wrote)[k] IN
          /\ Len(w.header) = 4 /\ IsBytes(w.header)
          /\ le32(w.header, 0) = Len(w.text)
          /\ w.bytesToWrite = 4 + Len(w.text)
          /\ le32(w.header, 0) > 0
          /\ \/ w.text = TxtReload
             \/ StartsWith(w.text, TxtClipboard)
             \/ StartsWith(w.text, TxtPrintjob)

\* A clipboard text of the remote side was written.
C14_Witness ==
    \E k \in DOMAIN TextWrites(last.wrote) :
        LET w == TextWrites(last.wrote)[k] IN
        /\ w.text = TxtClipboard \o <<"a", "b">>
        /\ w.header = <<12, 0, 0, 0>>


(***************************************************************************)
(* The keyboard records.                                                   *)
(***************************************************************************)
MaxKeyReads == 2        \* reads that return data, per run

R_KUC65_0 == <<"K", "U", "C", "6", "5", "-", "0">>
R_KSC30_1 == <<"K", "S", "C", "3", "0", "-", "1">>
R_KSC30_0 == <<"K", "S", "C", "3", "0", "-", "0">>
R_KSC72_1 == <<"K", "S", "C", "7", "2", "-", "1">>
R_KSC72_0 == <<"K", "S", "C", "7", "2", "-", "0">>

\* The scancodes of page up, page down, end, home and the arrows, as the
\* gateway writes them.
ExtendedKeys ==
    {[text |-> <<"7", "3">>, code |-> 73], [text |-> <<"8", "1">>, code |-> 81],
     [text |-> <<"7", "9">>, code |-> 79], [text |-> <<"7", "1">>, code |-> 71],
     [text |-> <<"7", "5">>, code |-> 75], [text |-> <<"7", "2">>, code |-> 72],
     [text |-> <<"7", "7">>, code |-> 77], [text |-> <<"8", "0">>, code |-> 80]}

\* The records with what they say: the code, and whether the key goes down.
KeyInputs ==
    {[rec |-> R_KUC65_1, code |-> 65, down |-> TRUE],
     [rec |-> R_KUC65_0, code |-> 65, down |-> FALSE],
     [rec |-> R_KSC30_1, code |-> 30, down |-> TRUE],
     [rec |-> R_KSC30_0, code |-> 30, down |-> FALSE],
     [rec |-> R_KSC72_1, code |-> 72, down |-> TRUE],
     [rec |-> R_KSC72_0, code |-> 72, down |-> FALSE]}
    \cup {[rec |-> <<"K", "S", "C">> \o c.text \o <<"-">> \o p.text,
            code |-> c.code, down |-> p.down] :
             c \in ExtendedKeys,
             p \in {[text |-> <<"1">>, down |-> TRUE], [text |-> <<"0">>, down |-> FALSE]}}

KeyMessages ==
    {join(<<k.rec>>) : k \in KeyInputs} \cup {join(<<R_KSC72_1, R_KSC72_0>>)}

InitKeys ==
    /\ SessionRuns(1)
    /\ PrinterInit({MyrtillePDF})
    /\ last = NoEffect
    /\ obs = ObsInit(MaxKeyReads, 0)

NextKeys ==
    \/ ReaderLoop
    \/ \E message \in KeyMessages : ReadFileReturns(message)
    \/ DispatchRecord

SpecKeys == InitKeys /\ [][NextKeys]_vars

KeyIsDown(call) == call.flags \cap {"KBD_FLAGS_DOWN", "down"} # {}

KeyIsExtended(call) == "KBD_FLAGS_EXTENDED" \in call.flags

\* C15: every KUC or KSC record code-1 or code-0 produces exactly one
\* keyboard event on the facade, down for 1 and up for 0, carrying the
\* code; for KSC the event is extended exactly when the record is a
\* key-down for a scancode in {71,72,73,75,77,79,80,81}, and a key-up for
\* those scancodes is dispatched too, without the extended flag.
C15_KeyRecordGivesOneEvent ==
    \A k \in KeyInputs :
        (last.op = "dispatch" /\ last.rec = k.rec) =>
            /\ Len(last.facade) = 1
            /\ last.facade[1].nums = <<k.code>>
            /\ KeyIsDown(last.facade[1]) = k.down
            /\ KeyIsExtended(last.facade[1])
                  = (Tag(k.rec) = <<"K", "S", "C">> /\ k.down
                        /\ k.code \in {71, 72, 73, 75, 77, 79, 80, 81})


(***************************************************************************)
(* Properties of closing print jobs and of releasing the printer.          *)
(***************************************************************************)
\* The allocator, the converter and the spooler all answer well.
CreateSucceeds(out) == out.calloc /\ out.conv /\ out.startDoc /\ out.startPage

\* C16: a close ends the page and the document, clears the printer's
\* current job and leaves the printer handle open; a create that follows a
\* close on the same printer is not refused and, the spooler answering
\* well, yields the new current job, however many jobs were closed before;
\* the printer handle is closed by free_printer only, and after the job
\* still open, if any, was closed (its page and document ended, the
\* current job cleared).
C16_CloseLeavesPrinterOpen ==
    /\ [][\A id \in 1..MaxJobId, out \in CloseOutcomes :
             (printer_win_close_printjob(id, out) /\ rpc' # "aborted")
                => /\ last'.spool = <<"EndPagePrinter", "EndDocPrinter">>
                   /\ printjob' = NoJob
                   /\ printerOpen' = printerOpen]_vars
    /\ [][\A id \in 1..MaxJobId, out \in CreateOutcomes :
             (closedJob # NoJob /\ printjob = NoJob /\ CreateSucceeds(out)
                 /\ printer_win_create_printjob(id, out))
                => /\ last'.ret = <<"job">>
                   /\ printjob' # NoJob /\ printjob'.id = id
                   /\ printerOpen']_vars
    /\ [][(printerOpen /\ ~printerOpen')
                => /\ last'.op = "printer_win_free_printer"
                   /\ printjob' = NoJob
                   /\ last'.spool = IF printjob # NoJob
                                    THEN <<"EndPagePrinter", "EndDocPrinter", "ClosePrinter">>
                                    ELSE <<"ClosePrinter">>]_vars

\* A job was created on a printer after an earlier job of it was closed.
C16_Witness ==
    /\ last.op = "printer_win_create_printjob"
    /\ last.ret = <<"job">>
    /\ closedJob # NoJob
    /\ printjob # NoJob
    /\ printerOpen


(***************************************************************************)
(* Close called again on a job that was closed.  The first close freed the *)
(* job (free(win_printjob)); the second reads printjob->printer and        *)
(* di.pDocName through the freed pointer and frees it again, which is      *)
(* undefined: either the memory still reads as it did, and the body runs   *)
(* as on the first close, or the process ends in the call.                 *)
(***************************************************************************)
StaleReads == {"as before", "ends"}

MaxLeaked == 1      \* jobs left allocated with no pointer to them that the model follows

printer_win_close_printjob_again(out, reads) ==
    /\ ProcessAlive /\ ~printerFreed
    /\ closedJob # NoJob
    /\ printjob # NoJob => openJobs <= MaxLeaked
    /\ LET c == close_printjob(closedJob, out)
           ends == reads = "ends" \/ c.throws
       IN
       /\ docOpen' = IF ends THEN docOpen ELSE c.docOpen
       /\ processInputs' = IF ends THEN processInputs ELSE c.processInputs
       /\ printjob' = IF ends THEN printjob ELSE NoJob
       /\ rpc' = IF ends THEN "aborted" ELSE rpc
       /\ last' = Effect("printer_win_close_printjob", CHANNEL, <<>>, NoRect,
                         IF ends THEN <<"throw">> ELSE <<"again">>,
                         IF reads = "ends" THEN <<>> ELSE c.spool,
                         IF reads = "ends" THEN <<>> ELSE c.facade,
                         IF reads = "ends" THEN <<>> ELSE c.wrote,
                         IF reads = "ends" THEN <<>> ELSE c.log)
    /\ Observed
    /\ UNCHANGED <<capture, inputsPipe,
                   openJobs, printerOpen, printerFreed, printerName, closedJob, ctxVars,
                   policyVars, counterVars, displayVars, clipVars, inputs, i, teardown>>

NextPrinterAgain ==
    \/ NextPrinter
    \/ \E out \in CloseOutcomes, reads \in StaleReads :
          printer_win_close_printjob_again(out, reads)

SpecPrinterAgain == InitPrinter /\ [][NextPrinterAgain]_vars

\* C17: a second close of a job that was closed is safe and has no effect:
\* no spooler call, no second printjob message, the printer as the first
\* close left it, the process going on.
C17_SecondCloseHasNoEffect ==
    [][\A out \in CloseOutcomes, reads \in StaleReads :
          printer_win_close_printjob_again(out, reads)
             => /\ last'.spool = <<>>
                /\ last'.wrote = <<>>
                /\ printerVars' = printerVars
                /\ rpc' = rpc]_vars


(***************************************************************************)
(* The printjob message of a close.                                        *)
(***************************************************************************)
\* The names create_printjob gives a document in a Myrtille session.
DocNames == {JobName \o pid \o tick : pid \in Pids, tick \in Ticks}

\* The close of the open job (by Close or by the printer being freed) wrote
\* as a close of a job created with the name `name` has to.
ClosedWithMessage(name, ok) ==
    /\ Len(last'.wrote) = 1
    /\ last'.wrote[1].kind = "message"
    /\ last'.wrote[1].text = TxtPrintjob \o name \o TxtPdf
    /\ last'.wrote[1].ok = ok

SpoolerFails(out) ==
    /\ out.calloc
    /\ printer_is_myrtille => out.conv
    /\ ~out.startDoc \/ ~out.startPage

\* C19: a create that the spooler fails in StartDocPrinter or StartPagePrinter
\* returns no job and leaves the printer with no current job; the current job
\* is set by nothing but a create that returns a job, so a later create is not
\* rejected as busy: it goes on to the spooler, and returns the job when the
\* spooler then answers well.
C19_SpoolerFailureLeavesNoJob ==
    /\ [][\A id \in 1..MaxJobId, out \in CreateOutcomes :
             (printjob = NoJob /\ SpoolerFails(out) /\ printer_win_create_printjob(id, out))
                => /\ last'.ret = <<"NULL">>
                   /\ last'.spool # <<>>
                   /\ printjob' = NoJob]_vars
    /\ [][(printjob = NoJob /\ printjob' # NoJob)
             => /\ last'.op = "printer_win_create_printjob"
                /\ last'.ret = <<"job">>]_vars
    /\ [][\A id \in 1..MaxJobId, out \in CreateOutcomes :
             (printjob = NoJob /\ out.calloc /\ (printer_is_myrtille => out.conv)
                 /\ printer_win_create_printjob(id, out))
                => /\ last'.spool # <<>>
                   /\ CreateSucceeds(out) => last'.ret = <<"job">> /\ printjob'.id = id]_vars

\* A create returned a job after one that StartPagePrinter failed: two
\* documents were started, one job exists and none was closed.
C19_Witness ==
    /\ last.op = "printer_win_create_printjob"
    /\ last.ret = <<"job">>
    /\ docOpen = 2 /\ openJobs = 1 /\ closedJob = NoJob
    /\ printjob # NoJob


(***************************************************************************)
(* Captures whose encoder fails.  An encoder that fails may have written   *)
(* nothing, or part of its output: webPWriter returns 0 on a short write,  *)
(* after the chunks before it went into the stream.                        *)
(***************************************************************************)
MaxEncoderCalls == 2    \* captures per run

EncoderOutcomes ==
    Sizes \cup
    {[png |-> 0, jpg |-> 0, webp |-> 0, failed |-> {FORMAT_PNG, FORMAT_JPEG, FORMAT_WEBP}],
     [png |-> 2, jpg |-> 3, webp |-> 1, failed |-> {FORMAT_WEBP}]}

InitEncoders ==
    /\ \E encoding \in {ENCODING_AUTO, ENCODING_PNG, ENCODING_JPEG, ENCODING_WEBP} :
          SessionRunsWith(1, encoding, QUALITY_HIGH, IMAGE_COUNT_SAMPLING_RATE, 0, 0)
    /\ PrinterInit({MyrtillePDF})
    /\ last = NoEffect
    /\ obs = ObsInit(0, MaxEncoderCalls)

NextEncoders ==
    \/ \E sz \in EncoderOutcomes, ok \in WriteOutcomes : SendScreen(sz, ok)
    \/ \E region \in Regions, sz \in EncoderOutcomes, ok \in WriteOutcomes :
          SendRegion(region, sz, ok)

SpecEncoders == InitEncoders /\ [][NextEncoders]_vars

\* The encoder of the format processImage keeps failed, or left nothing.
EncoderFailedOrEmpty(fullscreen, sz) ==
    \E e \in {processImage_encode(imageEncoding, imageQuality, fullscreen, sz)} :
        e.format \in sz.failed \/ e.size = 0

\* C20: a capture whose encoder fails or leaves an empty payload writes no
\* frame and leaves processInputs as it was (the captures after it being
\* processed as any other).
C20_FailedEncoderWritesNoFrame ==
    [][\A sz \in EncoderOutcomes, ok \in BOOLEAN :
          (EncoderFailedOrEmpty(TRUE, sz) /\ SendScreen(sz, ok))
             => /\ last'.wrote = <<>>
                /\ processInputs' = processInputs]_vars


(***************************************************************************)
(* The reader under records that set the image policy: ECD, QLT and QNT    *)
(* with the values the enums name and with integers that are none of them. *)
(***************************************************************************)
MaxPolicyReads == 2     \* reads that return data, per run

PolicyRecords ==
    {<<"E", "C", "D">> \o a : a \in {<<"0">>, <<"2">>, <<"3">>, <<"7">>, <<"-", "1">>}}
    \cup {<<"Q", "L", "T">> \o a : a \in {<<"1", "0">>, <<"1", "0", "0">>, <<"3", "3">>, <<"0">>}}
    \cup {<<"Q", "N", "T">> \o a : a \in {<<"5">>, <<"2", "0">>, <<"1", "0", "0">>, <<"3", "0">>, <<"0">>}}

PolicyMessages == {join(<<r>>) : r \in PolicyRecords} \cup {join(<<R_ECD1, R_QLT75, R_QNT25>>)}

InitPolicyReader ==
    /\ SessionRuns(1)
    /\ PrinterInit({MyrtillePDF})
    /\ last = NoEffect
    /\ obs = ObsInit(MaxPolicyReads, 0)

NextPolicyReader ==
    \/ ReaderLoop
    \/ \E message \in PolicyMessages : ReadFileReturns(message)
    \/ DispatchRecord

SpecPolicyReader == InitPolicyReader /\ [][NextPolicyReader]_vars

\* C21: the encoding is one of AUTO, PNG, JPEG, WEBP, the quality one of
\* 10, 25, 50, 75, 100 and the quantity one of 5, 10, 20, 25, 50, 100 in
\* every state, whatever ECD, QLT and QNT records were dispatched.
C21_PolicyWithinEnums ==
    /\ imageEncoding \in {ENCODING_AUTO, ENCODING_PNG, ENCODING_JPEG, ENCODING_WEBP}
    /\ imageQuality \in {QUALITY_LOW, QUALITY_MEDIUM, QUALITY_HIGH, QUALITY_HIGHER,
                         QUALITY_HIGHEST}
    /\ imageQuantity \in {5, 10, 20, 25, 50, 100}


(***************************************************************************)
(* Scaling: the reader under RSZ, SCA and mouse records, and region        *)
(* updates of the RDP thread.                                              *)
(***************************************************************************)
MaxScaleReads == 2      \* reads that return data, per run
MaxScaleCalls == 1      \* region updates, per run

R_RSZ0x0 == <<"R", "S", "Z", "0", "x", "0">>
R_SCA0x0 == <<"S", "C", "A", "0", "x", "0">>
R_SCA0 == <<"S", "C", "A", "0">>
R_SCA1 == <<"S", "C", "A", "1">>

ScaleRecords == {R_RSZ800x600, R_RSZ0x0, R_SCA800x600, R_SCA0x0, R_SCA0, R_SCA1}

\* Mouse records x-y with non-negative coordinates, and the flags and the
\* numbers each is written with.
MousePoints ==
    {[text |-> <<"1", "2", "0", "-", "2", "0", "0">>, x |-> 120, y |-> 200],
     [text |-> <<"0", "-", "0">>, x |-> 0, y |-> 0]}

MouseTags ==
    {[text |-> <<"M", "M", "O">>, bits |-> {"PTR_FLAGS_MOVE"}, low |-> 0],
     [text |-> <<"M", "L", "B", "1">>, bits |-> {"PTR_FLAGS_DOWN", "PTR_FLAGS_BUTTON1"}, low |-> 0],
     [text |-> <<"M", "L", "B", "0">>, bits |-> {"PTR_FLAGS_BUTTON1"}, low |-> 0],
     [text |-> <<"M", "M", "B", "1">>, bits |-> {"PTR_FLAGS_DOWN", "PTR_FLAGS_BUTTON3"}, low |-> 0],
     [text |-> <<"M", "R", "B", "0">>, bits |-> {"PTR_FLAGS_BUTTON2"}, low |-> 0],
     [text |-> <<"M", "W", "U">>, bits |-> {"PTR_FLAGS_WHEEL"}, low |-> 120],
     [text |-> <<"M", "W", "D">>,
      bits |-> {"PTR_FLAGS_WHEEL", "PTR_FLAGS_WHEEL_NEGATIVE"}, low |-> 136]}

MouseInputs ==
    {[rec |-> t.text \o p.text, bits |-> t.bits, low |-> t.low, x |-> p.x, y |-> p.y] :
        t \in MouseTags, p \in MousePoints}

ScaleMessages == {join(<<r>>) : r \in ScaleRecords} \cup {join(<<m.rec>>) : m \in MouseInputs}

\* A rectangle within the desktop, one whose edges are not multiples of the
\* scale, and rectangles that are reversed, negative or beyond the desktop.
ScaleRegions ==
    {[left |-> 400, top |-> 300, right |-> 800, bottom |-> 600],
     [left |-> 1, top |-> 0, right |-> 4, bottom |-> 3],
     [left |-> 300, top |-> 100, right |-> 100, bottom |-> 200],
     [left |-> 0, top |-> 10, right |-> 10, bottom |-> 5],
     [left |-> -1, top |-> 0, right |-> 10, bottom |-> 10],
     [left |-> 0, top |-> 0, right |-> 1601, bottom |-> 10],
     [left |-> 0, top |-> 0, right |-> 10, bottom |-> 1201]}

InitScale ==
    /\ SessionRuns(1)
    /\ PrinterInit({MyrtillePDF})
    /\ last = NoEffect
    /\ obs = ObsInit(MaxScaleReads, MaxScaleCalls)

NextScale ==
    \/ ReaderLoop
    \/ \E message \in ScaleMessages : ReadFileReturns(message)
    \/ DispatchRecord
    \/ \E region \in ScaleRegions, sz \in RateSizes, ok \in WriteOutcomes :
          SendRegion(region, sz, ok)

SpecScale == InitScale /\ [][NextScale]_vars

\* C22: the client's width and height are strictly positive in every state,
\* whatever RSZ and SCA records were dispatched, so that no scaling
\* transform divides by zero.
C22_ClientDimsPositive ==
    /\ clientWidth > 0
    /\ clientHeight > 0
    /\ \A m \in MouseInputs :
          ~(last.op = "dispatch" /\ last.rec = m.rec /\ last.ret = <<"throw">>)


\* The frame a region update wrote under scaling, if it wrote one.
ScaledRegionFrame ==
    /\ last.op = "wf_myrtille_send_region"
    /\ Images(last.wrote) # <<>>
    /\ ~Unscaled

\* C23: a region frame written under scaling has for position the
\* rectangle's left and top under x * client / desktop, and for width and
\* height the dimensions of the bitmap that was captured and encoded (the
\* destination of StretchBlt), themselves under that transform.
C23_ScaledFrameMatchesBitmap ==
    ScaledRegionFrame =>
        \E frame \in {Images(last.wrote)[1].meta}, blt \in {last.facade[1]} :
            /\ frame.posX = cdiv(last.rect.left * clientWidth, settings.DesktopWidth)
            /\ frame.posY = cdiv(last.rect.top * clientHeight, settings.DesktopHeight)
            /\ blt.f = "StretchBlt"
            /\ frame.width = blt.nums[3]
            /\ frame.height = blt.nums[4]

\* C24: a mouse record with non-negative coordinates gives one pointer
\* event with the flags of its tag, at (x, y) when the display is not
\* scaled or the client's dimensions are the desktop's, and at
\* (x * desktop_w / client_w, y * desktop_h / client_h) otherwise.
C24_MouseRecordGivesOneEvent ==
    \A m \in MouseInputs :
        (last.op = "dispatch" /\ last.rec = m.rec) =>
            /\ Len(last.facade) = 1
            /\ last.facade[1].f = "MouseEvent"
            /\ last.facade[1].flags = m.bits
            /\ last.facade[1].nums[1] = m.low
            /\ IF Unscaled
               THEN /\ last.facade[1].nums[2] = m.x
                    /\ last.facade[1].nums[3] = m.y
               ELSE /\ clientWidth # 0 /\ clientHeight # 0
                    /\ last.facade[1].nums[2] = (m.x * settings.DesktopWidth) \div clientWidth
                    /\ last.facade[1].nums[3] = (m.y * settings.DesktopHeight) \div clientHeight


\* A rectangle with left > right, top > bottom, a negative coordinate or a
\* coordinate beyond the desktop.
BadRect(region) ==
    \/ region.left > region.right \/ region.top > region.bottom
    \/ \E c \in {region.left, region.top, region.right, region.bottom} : c < 0
    \/ \E c \in {region.left, region.right} : c > settings.DesktopWidth
    \/ \E c \in {region.top, region.bottom} : c > settings.DesktopHeight

\* C25: a region update with such a rectangle writes no frame, captures
\* nothing, logs nothing, and leaves processInputs, the counters and the
\* process as they were.
C25_BadRectIsIgnored ==
    [][\A region \in ScaleRegions, sz \in RateSizes, ok \in BOOLEAN :
          (BadRect(region) /\ SendRegion(region, sz, ok))
             => /\ last'.wrote = <<>>
                /\ last'.facade = <<>>
                /\ last'.log = <<>>
                /\ processInputs' = processInputs
                /\ imageCount' = imageCount /\ imageIdx' = imageIdx
                /\ rpc' = rpc]_vars

\* A region update with a coordinate beyond the desktop was made, and
\* ignored.
C25_Witness ==
    /\ last.op = "wf_myrtille_send_region"
    /\ last.rect.right > settings.DesktopWidth
    /\ last.wrote = <<>>
    /\ processInputs


(***************************************************************************)
(* The clipboard: CLP records of the reader, and the reset and the         *)
(* delivery of the remote clipboard by the RDP thread, with the clipboard  *)
(* channel there (wfc->cliprdr) or not.                                    *)
(***************************************************************************)
MaxClipReads == 2       \* reads that return data, per run
MaxClipCalls == 2       \* clipboard callbacks, per run

ClipMessages == {join(<<R_CLP>>), join(<<R_CLP, R_CLP>>)}

InitClip ==
    /\ wf_myrtille_start(1, Desktop)
    /\ primary = TRUE
    /\ cliprdr \in BOOLEAN
    /\ clientThreads = 1
    /\ rpc = "read"
    /\ inputs = <<>>
    /\ i = 1
    /\ teardown = <<>>
    /\ capture = NotCapturing
    /\ inputsPipe = <<>>
    /\ PrinterInit({MyrtillePDF})
    /\ last = NoEffect
    /\ obs = ObsInit(MaxClipReads, MaxClipCalls)

NextClip ==
    \/ ReaderLoop
    \/ \E message \in ClipMessages : ReadFileReturns(message)
    \/ DispatchRecord
    \/ wf_myrtille_reset_clipboard
    \/ \E data \in ClipboardData, ok \in WriteOutcomes, fmt \in BOOLEAN :
          wf_myrtille_send_clipboard(data, ok, fmt)

SpecClip == InitClip /\ [][NextClip]_vars

FormatDataRequest == Call("ClientFormatDataRequest", {}, <<>>, <<"CF_UNICODETEXT">>)

\* The one write of the text `text` as a message.
WroteOneMessage(wrote, text) ==
    /\ Len(wrote) = 1
    /\ wrote[1].kind = "message"
    /\ wrote[1].text = text

\* What holds of clipboardUpdated whatever the clipboard channel: set by a
\* reset, cleared by send_clipboard, which writes the text it caches, and
\* changed by nothing else; a CLP with the flag clear writes the cached text
\* once and requests nothing.
ClipboardFlagAndCachedText ==
    /\ [](last.op = "wf_myrtille_reset_clipboard" => clipboardUpdated)
    /\ [](last.op = "wf_myrtille_send_clipboard"
            => ~clipboardUpdated /\ WroteOneMessage(last.wrote, clipboardText))
    /\ [][clipboardUpdated' # clipboardUpdated
            => last'.op \in {"wf_myrtille_reset_clipboard", "wf_myrtille_send_clipboard"}]_vars
    /\ []((last.op = "dispatch" /\ last.rec = R_CLP /\ ~clipboardUpdated)
            => last.facade = <<>> /\ WroteOneMessage(last.wrote, clipboardText))

\* C26, as the code has it: a CLP with clipboardUpdated set writes no
\* message, and issues one UNICODETEXT format-data request when the
\* clipboard channel is there and none, the cancellation being logged at
\* INFO, when it is not; the rest as stated.
C26_ClipboardRequestOrMessage ==
    /\ ClipboardFlagAndCachedText
    /\ []((last.op = "dispatch" /\ last.rec = R_CLP /\ clipboardUpdated)
            => /\ last.wrote = <<>>
               /\ IF cliprdr
                  THEN last.facade = <<FormatDataRequest>>
                  ELSE /\ last.facade = <<>>
                       /\ \E k \in DOMAIN last.log : last.log[k].level = "INFO")

\* A CLP was dispatched with the flag set and the channel there.
C26_Witness ==
    /\ last.op = "dispatch" /\ last.rec = R_CLP
    /\ clipboardUpdated /\ cliprdr
    /\ last.facade = <<FormatDataRequest>>

\* C26 as stated: a CLP with clipboardUpdated set issues the request.
C26_UpdatedAlwaysRequests ==
    /\ ClipboardFlagAndCachedText
    /\ []((last.op = "dispatch" /\ last.rec = R_CLP /\ clipboardUpdated)
            => last.wrote = <<>> /\ last.facade = <<FormatDataRequest>>)


(***************************************************************************)
(* Passwords: the reader under PWD records with several arguments, among   *)
(* records that are logged.                                                *)
(***************************************************************************)
MaxPwdReads == 2        \* reads that return data, per run

PwdArgs == {<<"p", "w">>, <<"s", "3", "c", "r", "e", "t">>, <<"-", "1">>, <<>>}

PwdRecord(arg) == <<"P", "W", "D">> \o arg

PwdMessages ==
    {join(<<PwdRecord(a)>>) : a \in PwdArgs}
    \cup {join(<<R_SRVh, PwdRecord(a), R_QLT75>>) : a \in PwdArgs}
    \cup {join(<<R_unknown>>), join(<<R_QLT_alpha>>)}

InitPwd ==
    /\ SessionRuns(1)
    /\ PrinterInit({MyrtillePDF})
    /\ last = NoEffect
    /\ obs = ObsInit(MaxPwdReads, 0)

NextPwd ==
    \/ ReaderLoop
    \/ \E message \in PwdMessages : ReadFileReturns(message)
    \/ DispatchRecord

SpecPwd == InitPwd /\ [][NextPwd]_vars

\* What a dispatch does and leaves, the password it stored apart.
WithoutPassword(d) == [d EXCEPT !.settings.Password = NullStr]

MaxAutoCalls == 2       \* captures per run

AutoSizes ==
    {[png |-> 2, jpg |-> 3, webp |-> 1, failed |-> {}],
     [png |-> 3, jpg |-> 2, webp |-> 1, failed |-> {}],
     [png |-> 2, jpg |-> 2, webp |-> 1, failed |-> {}],
     [png |-> 1, jpg |-> 4, webp |-> 1, failed |-> {}],
     [png |-> 0, jpg |-> 2, webp |-> 1, failed |-> {}]}

InitAuto ==
    /\ \E quality \in {QUALITY_LOW, QUALITY_HIGH} :
          SessionRunsWith(1, ENCODING_AUTO, quality, IMAGE_COUNT_SAMPLING_RATE, 0, 0)
    /\ PrinterInit({MyrtillePDF})
    /\ last = NoEffect
    /\ obs = ObsInit(0, MaxAutoCalls)

NextAuto ==
    \/ \E sz \in AutoSizes, ok \in WriteOutcomes : SendScreen(sz, ok)
    \/ \E region \in Regions, sz \in AutoSizes, ok \in WriteOutcomes :
          SendRegion(region, sz, ok)

SpecAuto == InitAuto /\ [][NextAuto]_vars

\* The frame written carries the smaller of the two streams of sz.
CarriesSmaller(wrote, sz) ==
    \A k \in DOMAIN Images(wrote) :
        \E w \in {Images(wrote)[k]} :
            /\ w.size = Min(sz.png, sz.jpg)
            /\ sz.png < sz.jpg => w.meta.format = FORMAT_PNG
            /\ sz.jpg < sz.png => w.meta.format = FORMAT_JPEG
            /\ w.meta.format \in {FORMAT_PNG, FORMAT_JPEG}
            /\ w.meta.format = FORMAT_PNG => w.meta.quality = QUALITY_HIGHEST

\* C28: with the encoding AUTO the frame a capture writes has the length of
\* the smaller of the PNG and the JPEG stream, the format PNG when the PNG
\* stream is the smaller and JPEG when the JPEG stream is, and the quality
\* HIGHEST when its format is PNG.
C28_AutoKeepsSmaller ==
    [][\A sz \in AutoSizes, ok \in BOOLEAN :
          (imageEncoding = ENCODING_AUTO
             /\ (SendScreen(sz, ok) \/ \E region \in Regions : SendRegion(region, sz, ok)))
             => CarriesSmaller(last'.wrote, sz)]_vars

\* A capture under AUTO wrote a JPEG frame, and one before it a PNG frame.
C28_Witness ==
    /\ imageEncoding = ENCODING_AUTO
    /\ Images(last.wrote) # <<>>
    /\ Images(last.wrote)[1].meta.format = FORMAT_JPEG
    /\ Images(last.wrote)[1].size = 2
    /\ obs.frames = 2


(***************************************************************************)
(* The cursor frame and the pixels of the cursor.                          *)
(***************************************************************************)
HasOpaqueBlack(argb) ==
    \E k \in DOMAIN argb :
        argb[k].a = 255 /\ argb[k].r = 0 /\ argb[k].g = 0 /\ argb[k].b = 0

\* C29: send_cursor writes a cursor frame (the PNG encoder having given
\* its output) if and only if the cursor's bitmap holds an opaque black
\* pixel after the pixel pass.
C29_CursorFrameIffOpaqueBlack ==
    [][\A cursor \in Cursors, pngSize \in PngSizes \ {0}, ok \in BOOLEAN :
          SendCursor(cursor, pngSize, ok)
             => ((Images(last'.wrote) # <<>>)
                    <=> HasOpaqueBlack(send_cursor_pass(cursor.pixels)))]_vars


(***************************************************************************)
(* What changes image_count, and what the quantity drops.                  *)
(***************************************************************************)
MaxCountReads == 1      \* ReadFile returns per run
MaxCountCalls == 2      \* capture-hook calls per run

CountQuantities == {25, 100}

\* image_count at the start of the run: fresh, and next to its wrap.
CountValues == {0, 1, INT_MAX - 1, INT_MAX}

\* Records of the reader: a full-screen request, pointer and key input, and
\* the commands that set the policy.
CountMessages ==
    {join(<<R_FSU>>), join(<<R_MWD120_200>>), join(<<R_KUC65_1>>),
     join(<<R_QNT25>>), join(<<R_ECD1>>)}

InitCount ==
    /\ \E quantity \in CountQuantities, count \in CountValues :
          SessionRunsAt(1, quantity, count, 0)
    /\ PrinterInit({MyrtillePDF})
    /\ last = NoEffect
    /\ obs = ObsInit(MaxCountReads, MaxCountCalls)

NextCount ==
    \/ ReaderLoop
    \/ \E message \in CountMessages : ReadFileReturns(message)
    \/ DispatchRecord
    \/ \E sz \in Sizes, ok \in WriteOutcomes : SendScreen(sz, ok)
    \/ \E region \in Regions, sz \in Sizes, ok \in WriteOutcomes :
          SendRegion(region, sz, ok)
    \/ \E cursor \in Cursors, pngSize \in PngSizes, ok \in WriteOutcomes :
          SendCursor(cursor, pngSize, ok)

SpecCount == InitCount /\ [][NextCount]_vars

\* image_count after one step: INT_MAX is followed by 1.
CountStep(count) == IF count = INT_MAX THEN 1 ELSE count + 1

\* The capture hooks capture: a session is on and the primary surface is there.
Capturing == settings.MyrtilleSessionId # 0 /\ primary

\* C30: image_count changes in no step but a region update whose rectangle
\* passes the consistency check, and by one step; such an update, the
\* session capturing, always makes that step; full-screen updates, cursor
\* updates, rejected regions and the records of the reader leave it, and a
\* full-screen or cursor update writes its frame whenever its encoder gave
\* output (and the cursor is not suppressed as empty), whatever the quantity.
C30_CountOnlyByValidRegions ==
    /\ [][imageCount' # imageCount
            => /\ imageCount' = CountStep(imageCount)
               /\ \E region \in Regions, sz \in Sizes, ok \in BOOLEAN :
                     ~BadRect(region) /\ SendRegion(region, sz, ok)]_vars
    /\ [][\A region \in Regions, sz \in Sizes, ok \in BOOLEAN :
             (Capturing /\ ~BadRect(region) /\ SendRegion(region, sz, ok))
                => imageCount' = CountStep(imageCount)]_vars
    /\ [][\A sz \in Sizes, ok \in BOOLEAN :
             (Capturing /\ SendScreen(sz, ok))
                => ((Images(last'.wrote) # <<>>)
                      <=> \E e \in {processImage_encode(imageEncoding, imageQuality, TRUE, sz)} :
                             e.stream /\ e.size > 0)]_vars
    /\ [][\A cursor \in Cursors, pngSize \in PngSizes, ok \in BOOLEAN :
             (Capturing /\ SendCursor(cursor, pngSize, ok))
                => ((Images(last'.wrote) # <<>>)
                      <=> (send_cursor_bmpOk(cursor.pixels) /\ pngSize > 0))]_vars

\* With the quantity 25, a region update was counted and dropped (image_count
\* went from INT_MAX to 1 and nothing was written), and the full-screen
\* update of the FSU record after it wrote its frame.
C30_Witness ==
    /\ imageQuantity = 25
    /\ obs.count0 = INT_MAX /\ imageCount = 1
    /\ obs.calls = 1 /\ obs.passed = 0
    /\ last.op = "dispatch" /\ last.rec = R_FSU
    /\ Images(last.wrote) # <<>>

(***************************************************************************)
(* The bridge switched off: MyrtilleSessionId is 0.                        *)
(***************************************************************************)
MaxOffCalls == 2        \* calls of the client's thread per run

\* The client runs without the bridge: its thread is the one the stock client
\* starts, no reader exists, and wf_myrtille_start has returned at once.
InitOff ==
    /\ wf_myrtille_start(0, Desktop)
    /\ primary \in BOOLEAN
    /\ cliprdr = TRUE
    /\ clientThreads = 1
    /\ PrinterInit(PrinterNames)
    /\ ReaderNotStarted
    /\ last = NoEffect
    /\ obs = ObsInit(0, MaxOffCalls)

NextOff ==
    \/ \E connected \in BOOLEAN : wf_myrtille_connect(connected)
    \/ wf_myrtille_stop
    \/ \E sz \in Sizes, ok \in WriteOutcomes : SendScreen(sz, ok)
    \/ \E region \in Regions, sz \in Sizes, ok \in WriteOutcomes :
          SendRegion(region, sz, ok)
    \/ \E cursor \in Cursors, pngSize \in PngSizes, ok \in WriteOutcomes :
          SendCursor(cursor, pngSize, ok)
    \/ wf_myrtille_reset_clipboard
    \/ \E data \in ClipboardData, ok \in WriteOutcomes, fmt \in BOOLEAN :
          wf_myrtille_send_clipboard(data, ok, fmt)
    \/ \E id \in 1..MaxJobId, out \in CreateOutcomes : printer_win_create_printjob(id, out)
    \/ \E id \in 1..MaxJobId, written \in BOOLEAN : printer_win_write_printjob(id, written)
    \/ \E id \in 1..MaxJobId, out \in CloseOutcomes : printer_win_close_printjob(id, out)

SpecOff == InitOff /\ [][NextOff]_vars

\* C31: with MyrtilleSessionId 0 no step of an entry point or of the printer
\* changes the context, the bridge's fields or the reader (no channel opened,
\* no reader spawned), writes on the updates channel or calls the facade, and
\* the entry points log nothing; the close of a job of "Myrtille PDF" is such
\* a step.
C31_SessionZeroDoesNothing ==
    /\ [](settings.MyrtilleSessionId = 0 => rpc = "none" /\ last.wrote = <<>>)
    /\ [][settings.MyrtilleSessionId = 0
            => /\ UNCHANGED sessionVars
               /\ last'.wrote = <<>>
               /\ last'.facade = <<>>
               /\ last'.thr = RDP => (last'.log = <<>> /\ last'.ret \in {<<>>, <<"NULL">>})]_vars

\* A job of "Myrtille PDF" was closed with the bridge off, after the client's
\* thread had called an entry point.
C31_Witness ==
    /\ settings.MyrtilleSessionId = 0
    /\ printerName = MyrtillePDF
    /\ last.op = "printer_win_close_printjob"
    /\ last.spool = close_printjob_spool
    /\ obs.rdpCalls > 0

(***************************************************************************)
(* A region update of the RDP client thread, statement by statement, with  *)
(* the reader thread running beside it.  No field of wfMyrtille is         *)
(* atomic, volatile or guarded by a lock: each statement reads what the    *)
(* memory holds when it runs.                                              *)
(***************************************************************************)
MaxRaceReads == 1       \* ReadFile returns per run
MaxRaceCalls == 1       \* region updates per run

R_ECD2 == <<"E", "C", "D", "2">>

\* Records the reader dispatches while the update runs.
RaceMessages ==
    {join(<<R_ECD1>>), join(<<R_ECD2>>), join(<<R_SCA800x600>>), join(<<R_FSU>>)}

\* What an uninitialized ULONG (pngSize, jpgSize) may hold.
Uninitialized == {0, 9}

\* ++ on an int of the build: the value after INT_MAX wraps to INT_MIN.
int_increment(v) == IF v = INT_MAX THEN (0 - INT_MAX) - 1 ELSE v + 1

\* The policy and the client's dimensions the memory holds now, added to
\* those it held at the earlier statements of the call.
Seen(c) ==
    [c EXCEPT !.policies = @ \cup {<<imageEncoding, imageQuality>>},
              !.dims = @ \cup {<<clientWidth, clientHeight>>}]

\* A statement that writes no field of wfMyrtille but the counters.
Stepped(c) ==
    /\ ProcessAlive /\ clientThreads > 0
    /\ capture' = c
    /\ UNCHANGED <<inputsPipe, printerVars, ctxVars, policyVars, displayVars, clipVars,
                   readerVars>>

Inside(c) == Stepped(Seen(c)) /\ UNCHANGED <<processInputs, counterVars, last, obs>>

\* The call returns: what it did is the effect of wf_myrtille_send_region.
Returned(wrote, log) ==
    /\ Stepped(NotCapturing)
    /\ last' = Effect("wf_myrtille_send_region", RDP, <<>>, capture.region, <<>>, <<>>,
                      capture.facade, wrote, log)
    /\ Observed

\* wf_myrtille_send_region up to `cw = myrtille->clientWidth`, for a call
\* that the checks and the regulator let through.
send_region_cw(region, sz) ==
    /\ RdpThreadRuns
    /\ settings.MyrtilleSessionId # 0 /\ primary
    /\ ~send_region_rejects(region)
    /\ ~send_region_drops(imageQuantity, imageCount_next(imageCount))
    /\ imageCount' = imageCount_next(imageCount)
    /\ Stepped(Seen([NotCapturing EXCEPT !.pc = "ch", !.region = region, !.sz = sz,
                                         !.cw = clientWidth]))
    /\ UNCHANGED <<processInputs, imageIdx, last, obs>>

\* ch = myrtille->clientHeight;
send_region_ch ==
    /\ capture.pc = "ch"
    /\ Inside([capture EXCEPT !.pc = "blt", !.ch = clientHeight])

\* if (!myrtille->scaleDisplay || (cw == dw && ch == dh)) BitBlt ... else
\* StretchBlt ... and the region scaled.
send_region_blt ==
    /\ capture.pc = "blt"
    /\ LET region == capture.region
           cw == capture.cw
           ch == capture.ch
           dw == settings.DesktopWidth
           dh == settings.DesktopHeight
           rw == region.right - region.left
           rh == region.bottom - region.top
           unscaled == ~scaleDisplay \/ (cw = dw /\ ch = dh)
       IN  Inside([capture EXCEPT
              !.pc = "quality",
              !.facade = IF unscaled
                         THEN <<Call("BitBlt", {}, <<region.left, region.top, rw, rh>>, <<>>)>>
                         ELSE <<Call("StretchBlt", {},
                                     <<region.left, region.top, cdiv(rw * cw, dw),
                                       cdiv(rh * ch, dh), rw, rh>>, <<>>)>>,
              !.rect = IF unscaled THEN region
                       ELSE [left |-> cdiv(region.left * cw, dw),
                             top |-> cdiv(region.top * ch, dh),
                             right |-> cdiv(region.right * cw, dw),
                             bottom |-> cdiv(region.bottom * ch, dh)]])

\* int quality = (imageEncoding == PNG ? HIGHEST : (fullscreen ? HIGHER : imageQuality));
processImage_quality_read ==
    /\ capture.pc = "quality"
    /\ Inside([capture EXCEPT
          !.pc = "gdi",
          !.quality = processImage_quality(imageEncoding, imageQuality, FALSE)])

\* if (imageEncoding == PNG || imageEncoding == JPEG || imageEncoding == AUTO)
processImage_gdi ==
    /\ capture.pc = "gdi"
    /\ Inside([capture EXCEPT
          !.pc = IF imageEncoding \in {ENCODING_PNG, ENCODING_JPEG, ENCODING_AUTO}
                 THEN "png" ELSE "webp"])

\* if (imageEncoding == PNG || imageEncoding == AUTO) { ... bmp->Save(pngStream) ... }
processImage_png ==
    /\ capture.pc = "png"
    /\ IF imageEncoding \in {ENCODING_PNG, ENCODING_AUTO}
       THEN Inside([capture EXCEPT !.pc = "jpg", !.png = TRUE,
                                   !.pngSize = capture.sz.png])
       ELSE \E junk \in Uninitialized :
               Inside([capture EXCEPT !.pc = "jpg", !.pngSize = junk])

\* if (imageEncoding == JPEG || imageEncoding == AUTO) { ... bmp->Save(jpgStream) ... }
processImage_jpg ==
    /\ capture.pc = "jpg"
    /\ IF imageEncoding \in {ENCODING_JPEG, ENCODING_AUTO}
       THEN Inside([capture EXCEPT !.pc = "lowest", !.jpg = TRUE,
                                   !.jpgSize = capture.sz.jpg])
       ELSE \E junk \in Uninitialized :
               Inside([capture EXCEPT !.pc = "lowest", !.jpgSize = junk])

\* if (imageEncoding == PNG || (imageEncoding == AUTO && pngSize <= jpgSize))
\* the PNG stream, else the JPEG stream (either may be NULL).
processImage_lowest ==
    /\ capture.pc = "lowest"
    /\ IF \/ imageEncoding = ENCODING_PNG
          \/ (imageEncoding = ENCODING_AUTO /\ capture.pngSize <= capture.jpgSize)
       THEN Inside([capture EXCEPT !.pc = "wrap", !.stream = capture.png,
                                   !.format = FORMAT_PNG, !.quality = QUALITY_HIGHEST,
                                   !.size = capture.pngSize])
       ELSE Inside([capture EXCEPT !.pc = "wrap", !.stream = capture.jpg,
                                   !.format = FORMAT_JPEG, !.size = capture.jpgSize])

\* else if (imageEncoding == WEBP) { ... webPEncoder ... }
processImage_webp ==
    /\ capture.pc = "webp"
    /\ IF imageEncoding = ENCODING_WEBP
       THEN Inside([capture EXCEPT !.pc = "wrap", !.stream = TRUE,
                                   !.format = FORMAT_WEBP, !.size = capture.sz.webp])
       ELSE Inside([capture EXCEPT !.pc = "wrap"])

\* if (imageIdx == INT_MAX) imageIdx = 0; if (stream != NULL && size > 0) ...
processImage_wrap ==
    /\ capture.pc = "wrap"
    /\ imageIdx' = imageIdx_wrap(imageIdx)
    /\ UNCHANGED <<processInputs, imageCount>>
    /\ IF capture.stream /\ capture.size > 0
       THEN Stepped(Seen([capture EXCEPT !.pc = "load"])) /\ UNCHANGED <<last, obs>>
       ELSE Returned(<<>>, <<>>)

\* ++myrtille->imageIdx: the load.
processImage_idx_load ==
    /\ capture.pc = "load"
    /\ Inside([capture EXCEPT !.pc = "store", !.idx = imageIdx])

\* ++myrtille->imageIdx: the store, and sendImage with the value stored.
processImage_idx_store(ok) ==
    /\ capture.pc = "store"
    /\ LET idx == int_increment(capture.idx)
           r == capture.rect
           meta == ImageMeta(idx, r.left, r.top, r.right - r.left, r.bottom - r.top,
                             capture.format, capture.quality, 0)
       IN  /\ imageIdx' = idx
           /\ processInputs' = sendImage_processInputs(processInputs, ok)
           /\ UNCHANGED imageCount
           /\ Returned(sendImage_wrote(meta, capture.size, ok), sendImage_log(ok))

RaceEncodings == {ENCODING_AUTO, ENCODING_PNG, ENCODING_JPEG, ENCODING_WEBP}

\* image_idx when the update starts: fresh, and next to INT_MAX.
RaceIdx == {0, INT_MAX - 1}

InitRace ==
    /\ \E encoding \in RaceEncodings, idx \in RaceIdx :
          SessionRunsWith(1, encoding, QUALITY_HIGH, IMAGE_COUNT_SAMPLING_RATE, 0, idx)
    /\ PrinterInit({MyrtillePDF})
    /\ last = NoEffect
    /\ obs = ObsInit(MaxRaceReads, MaxRaceCalls)

NextRace ==
    \/ ReaderLoop
    \/ \E message \in RaceMessages : ReadFileReturns(message)
    \/ DispatchRecord
    \/ \E region \in Regions, sz \in Sizes : send_region_cw(region, sz)
    \/ send_region_ch
    \/ send_region_blt
    \/ processImage_quality_read
    \/ processImage_gdi
    \/ processImage_png
    \/ processImage_jpg
    \/ processImage_lowest
    \/ processImage_webp
    \/ processImage_wrap
    \/ processImage_idx_load
    \/ \E ok \in WriteOutcomes : processImage_idx_store(ok)

SpecRace == InitRace /\ [][NextRace]_vars

\* The format and the quality the encoding/quality rule gives a region frame
\* under the policy p = <<encoding, quality>>.
RuleGives(p, sz, format, quality) ==
    \E e \in {processImage_encode(p[1], p[2], FALSE, sz)} :
       e.stream /\ e.format = format /\ e.quality = quality

\* C32: the format and the reported quality of every frame a region update
\* writes are those the rule gives for one policy value <<encoding, quality>>
\* that the memory held at some statement of that update, the reader
\* dispatching ECD or QLT meanwhile or not.
C32_FrameUnderOnePolicy ==
    [][(capture.pc = "store" /\ capture'.pc = "idle")
         => \A k \in DOMAIN Images(last'.wrote) :
               \E p \in capture.policies \cup {<<imageEncoding, imageQuality>>} :
                  RuleGives(p, capture.sz, Images(last'.wrote)[k].meta.format,
                            Images(last'.wrote)[k].meta.quality)]_vars

\* C33: the width and the height a region update scales by are a pair
\* <<clientWidth, clientHeight>> that the memory held at some statement of
\* the update, the reader dispatching RSZ or SCA meanwhile or not.
C33_ScalesByOnePair ==
    [][(capture.pc = "blt" /\ capture'.pc = "quality" /\ scaleDisplay)
         => <<capture.cw, capture.ch>>
               \in capture.dims \cup {<<clientWidth, clientHeight>>}]_vars

\* C35: image_count and image_idx are within 0..INT_MAX in every state.
C35_CountersWithinInt ==
    /\ imageCount \in 0..INT_MAX
    /\ imageIdx \in 0..INT_MAX

MaxSplitReads == 2      \* ReadFile returns per run

\* The streams the peer writes: two records and the tab between them.
SplitStreams ==
    {join(<<R_QNT25, R_FSU>>), join(<<R_ECD1, R_QLT75>>), join(<<R_KUC65_1, R_FSU>>)}

InitSplit ==
    /\ wf_myrtille_start(1, Desktop)
    /\ primary = TRUE
    /\ cliprdr = TRUE
    /\ clientThreads = 1
    /\ rpc = "read"
    /\ inputs = <<>>
    /\ i = 1
    /\ teardown = <<>>
    /\ capture = NotCapturing
    /\ inputsPipe \in SplitStreams
    /\ PrinterInit({MyrtillePDF})
    /\ last = NoEffect
    /\ obs = ObsInit(MaxSplitReads, 0)

NextSplit ==
    \/ ReaderLoop
    \/ \E n \in 1..Len(inputsPipe) : ReadFileReads(n)
    \/ DispatchRecord

SpecSplit == InitSplit /\ [][NextSplit]_vars

\* The records of the streams, as one read of a whole stream gives them.
WholeRecords == UNION {Range(split(stream, TAB)) : stream \in SplitStreams}

\* C34: whatever the reads a stream is returned in, every record the reader
\* dispatches is a whole record of the stream, none a part of one.
C34_DispatchesWholeRecords ==
    last.op = "dispatch" => last.rec \in WholeRecords

(***************************************************************************)
(* What changes image_idx: captures that write a frame and captures that   *)
(* write none, from values of image_idx up to INT_MAX.                     *)
(***************************************************************************)
MaxKeepCalls == 2       \* capture-hook calls per run

KeepStarts == {7, INT_MAX - 1, INT_MAX}

InitKeep ==
    /\ \E quantity \in CountQuantities, idx \in KeepStarts :
          SessionRunsAt(1, quantity, 0, idx)
    /\ PrinterInit({MyrtillePDF})
    /\ last = NoEffect
    /\ obs = ObsInit(0, MaxKeepCalls)

NextKeep ==
    \/ \E sz \in Sizes, ok \in WriteOutcomes : SendScreen(sz, ok)
    \/ \E region \in Regions, sz \in Sizes, ok \in WriteOutcomes :
          SendRegion(region, sz, ok)
    \/ \E cursor \in Cursors, pngSize \in PngSizes, ok \in WriteOutcomes :
          SendCursor(cursor, pngSize, ok)

SpecKeep == InitKeep /\ [][NextKeep]_vars

\* C37, as stated: image_idx changes in no step but one that hands a frame to
\* the updates channel.
C37_IdxChangesOnlyWithFrame ==
    [][imageIdx' # imageIdx => Images(last'.wrote) # <<>>]_vars

\* C37, as the code has it: image_idx changes in no step but one that hands
\* a frame to the updates channel or one that finds image_idx at INT_MAX,
\* gets no payload from the encoder and leaves image_idx at 0; a region
\* update rejected by the consistency check or dropped by the regulator and
\* a cursor suppressed as empty leave image_idx as it is, INT_MAX included.
C37_IdxChangesWithFrameOrWrap ==
    /\ [][imageIdx' # imageIdx
            => \/ Images(last'.wrote) # <<>>
               \/ (imageIdx = INT_MAX /\ imageIdx' = 0)]_vars
    /\ [][\A region \in Regions, sz \in Sizes, ok \in BOOLEAN :
             (/\ SendRegion(region, sz, ok)
              /\ \/ BadRect(region)
                 \/ send_region_drops(imageQuantity, imageCount_next(imageCount)))
                => imageIdx' = imageIdx]_vars
    /\ [][\A cursor \in Cursors, pngSize \in PngSizes, ok \in BOOLEAN :
             (SendCursor(cursor, pngSize, ok) /\ ~send_cursor_bmpOk(cursor.pixels))
                => imageIdx' = imageIdx]_vars

\* A full-screen update found image_idx at INT_MAX, got no payload from the
\* encoder and wrote no frame: image_idx is 0.
C37_Witness ==
    /\ last.op = "wf_myrtille_send_screen"
    /\ last.facade # <<>>
    /\ last.wrote = <<>>
    /\ obs.frames = 0
    /\ imageIdx = 0

\* The encoders are usable: GdiplusShutdown has not run.
EncodersUp == "GdiplusShutdown" \notin Range(teardown)

\* C38: no capture hook or text message writes on the updates channel once
\* the reader's teardown has closed its handle, and no capture hook encodes
\* once the teardown has shut the encoders down.
C38_NothingAfterTeardown ==
    [][last' # last
         => /\ last'.wrote # <<>> => UpdatesPipeOpen
            /\ (last'.thr = RDP /\ last'.facade # <<>>) => EncodersUp]_vars

\* C39: at most one wf_client_thread has been started on the context.
C39_OneClientThread == clientThreads <= 1

\* C40: at most one spooler document is started and not ended on the
\* printer, and none is once the printer's handle is closed.
C40_DocumentEndedBeforeNext ==
    /\ docOpen <= 1
    /\ ~printerOpen => docOpen = 0

=============================================================================
